---- MODULE Spec2Model ----
(***************************************************************************)
(* Role resolution (NormalizationEnhancedMapper, template_enhancer.py) and *)
(* relationship assembly (CorrectedOntologyBuilder,                        *)
(* build_working_ontology.py) of ModelSEEDTemplates.                       *)
(*                                                                         *)
(* Text is a sequence of one-character strings.  An optional value (a      *)
(* Python None or a missing dict key) is the empty sequence, a present     *)
(* value v is <<v>>.  A Python dict is a function on its key set.          *)
(***************************************************************************)
EXTENDS Integers, Sequences, FiniteSets, TLC

VARIABLES
    seed_nodes,               \* nodes of seed.json (self.seed_data), registry input
    seed_role_by_normalized,  \* dict normalized form -> role_info
    normalization_collisions, \* dict normalized form -> list of role_info
    rast_answers,             \* answers RASTSeedMapper.map_annotation has given
    template,                 \* template of the current process_template run
    roles_in_complexes,       \* set of role ids
    stats,                    \* self.stats['roles']
    unmapped_roles,           \* list
    normalization_matches,    \* list
    potential_collisions,     \* list
    role_to_seed,             \* dict role id -> seed id
    pc,                       \* position inside process_template
    idx,                      \* loop index of process_template
    runs,                     \* process_template calls started
    enhanced,                 \* CorrectedOntologyBuilder.template (the enhanced template)
    enables_reaction_rels,    \* list of links
    has_role_rels,            \* list of links
    has_complex_rels,         \* list of links
    reaction_type_rels,       \* list of links
    bpc,                      \* position of the builder
    relationships,            \* CompleteSEEDOntologyBuilder: content of relationships_file
    complex_enables_reaction, \* dict complex id -> set of reaction ids, as a relation
    reaction_has_complex,     \* dict reaction id -> set of complex ids, as a relation
    owl_complexes,            \* keys of self.complexes
    owl_reactions,            \* keys of self.reactions
    capable_of,               \* RO_0002215 statements of the generated OWL
    realized_by,              \* RO_0000058 statements of the generated OWL
    opc,                      \* position inside build_complete_ontology
    label,                    \* the argument given to a normalizer
    norm_fn,                  \* the normalizer called
    norm_calls,               \* calls made: the second call is given the first result
    norm_prev,                \* result of the first call, once a second is made
    norm_key,                 \* result of the last call
    xrefs_list,               \* the 'val' fields of a node's meta.xrefs
    xrefs,                    \* dict returned by ModelSEEDExtractor._parse_xrefs
    compound,                 \* what OntologyMapper.map_compound attached
    reaction,                 \* what OntologyMapper.map_reaction attached
    xop,                      \* the cross-reference operation called
    present,                  \* the source files that exist
    validate,                 \* the argument of build_full_pipeline
    rpc,                      \* position of a run of an entry point
    phases,                   \* the phases build_full_pipeline has entered
    integrated,               \* the missing-elements files load_missing_elements read
    written,                  \* the output files written so far
    error,                    \* the exception that reached the caller, if any
    result,                   \* what build_full_pipeline returned, if it did
    template_data,            \* CleanOntologyExtractor.data (template_data.json)
    mapped_entities,          \* what extract_mapped_entities returned
    clean_data,               \* what extract_valid_relationships returned
    clean_file,               \* content of clean_template_data.json
    build_outcome,            \* how CleanSEEDOntologyBuilder.build ended
    cpos,                     \* position of the clean ontology run
    index_nodes,              \* SEEDRolesExtractor.nodes
    seed_roles,               \* what extract_roles returned, in insertion order
    name_index,               \* what build_name_to_id_index returned
    template_role_name,       \* the template role name looked up
    matched,                  \* whether the lookup found it
    ipos,                     \* position of the name index run
    coverage_report,          \* the coverage report _generate_reports wrote, if any
    entity_counts,            \* sizes of the dicts of CompleteSEEDOntologyBuilder
    summary_file,             \* content of output/seed_unified.json
    step_result,              \* dict workflow step -> the key it failed on, if any
    spos                      \* position of the workflow

mvars == <<seed_nodes, seed_role_by_normalized, normalization_collisions,
           rast_answers, template, roles_in_complexes, stats, unmapped_roles,
           normalization_matches, potential_collisions, role_to_seed, pc, idx,
           runs>>

bvars == <<enhanced, enables_reaction_rels, has_role_rels, has_complex_rels,
           reaction_type_rels, bpc>>

ovars == <<relationships, complex_enables_reaction, reaction_has_complex,
           owl_complexes, owl_reactions, capable_of, realized_by, opc>>

\* the components other than the mapper and the relationship assembler
nvars == <<label, norm_fn, norm_calls, norm_prev, norm_key>>

xvars == <<xrefs_list, xrefs, compound, reaction, xop>>

rvars == <<present, validate, rpc, phases, integrated, written, error, result>>

\* the components modelled further below
cvars == <<template_data, mapped_entities, clean_data, clean_file, build_outcome, cpos>>

ivars == <<index_nodes, seed_roles, name_index, template_role_name, matched, ipos>>

pvars == <<coverage_report>>

svars == <<entity_counts, summary_file, step_result, spos>>

zvars == <<cvars, ivars, pvars, svars>>

lvars == <<rvars, zvars>>

evars == <<ovars, nvars, xvars, lvars>>

vars == <<mvars, bvars, evars>>

----------------------------------------------------------------------------
(* Bounds *)
MaxNodes == 3
MaxRuns == 2
MaxRerunNodes == 1
MaxRxns == 1
MaxTokens == 3
MaxXrefs == 2

----------------------------------------------------------------------------
(* Text *)

None == <<>>
Some(v) == <<v>>
IsSome(o) == Len(o) = 1
Val(o) == o[1]

Chars == {"A", "a", "b", " ", "-", "_", "E", "C", "e", "c", "(", ")", "1", "."}

\* str.isspace for the characters of Chars
IsSpace(c) == c = " "

\* str.lower, character by character
LowerChar(c) ==
    IF c = "A" THEN "a" ELSE IF c = "E" THEN "e" ELSE IF c = "C" THEN "c" ELSE c

\* a regex word character other than "_": what [\W_] does NOT match
IsAlnum(c) == c \in {"A", "a", "b", "E", "C", "e", "c", "1"}

RECURSIVE LStrip(_)
LStrip(s) == IF s # <<>> /\ IsSpace(Head(s)) THEN LStrip(Tail(s)) ELSE s

RECURSIVE RStrip(_)
RStrip(s) ==
    IF s # <<>> /\ IsSpace(s[Len(s)]) THEN RStrip(SubSeq(s, 1, Len(s) - 1)) ELSE s

Strip(s) == LStrip(RStrip(s))

Lower(s) == [k \in 1..Len(s) |-> LowerChar(s[k])]

\* mutant: the pattern \W+ in place of [\W_]+, which keeps underscores
RemoveNonAlnum_KeepUnderscore(s) == SelectSeq(s, LAMBDA c : IsAlnum(c) \/ c = "_")

RECURSIVE RemoveNonAlnum(_)
RemoveNonAlnum(s) ==
    IF s = <<>> THEN <<>>
    ELSE IF IsAlnum(Head(s)) THEN <<Head(s)>> \o RemoveNonAlnum(Tail(s))
         ELSE RemoveNonAlnum(Tail(s))

\* normalize_role: s.strip().lower(), then re.sub(r"[\W_]+", "", s)
normalize_role(s) == RemoveNonAlnum(Lower(Strip(s)))

StartsWith(s, prefix) ==
    Len(s) >= Len(prefix) /\ SubSeq(s, 1, Len(prefix)) = prefix

\* re.sub(r'\s+', ' ', s)
RECURSIVE CollapseSpaces(_)
CollapseSpaces(s) ==
    IF s = <<>> THEN <<>>
    ELSE IF IsSpace(Head(s)) THEN <<" ">> \o CollapseSpaces(LStrip(s))
         ELSE <<Head(s)>> \o CollapseSpaces(Tail(s))

\* where the run of white space that ends at position n of s begins (n + 1 if
\* s[n] is no white space)
SpaceRunStart(s, n) ==
    CHOOSE i \in 1..(n + 1) :
        /\ \A k \in i..n : IsSpace(s[k])
        /\ i = 1 \/ ~IsSpace(s[i - 1])

----------------------------------------------------------------------------
(* Identifiers, URLs and input alphabets *)

NameAb     == <<"A", " ", "b">>     \* "A b"
NameAdashb == <<"a", "-", "b">>     \* "a-b"
NameEmpty  == <<>>                  \* ""

RoleNumbers == 1..MaxNodes
SeedId(n)   == <<"seed.role", n>>   \* f"seed.role:{role_number}"
RoleUrlPrefix == "https://pubseed.theseed.org/RoleEditor.cgi?page=ShowRole&Role="
RoleUrl(n)  == <<RoleUrlPrefix, n>>
OtherUrl(n) == <<"https://pubseed.theseed.org/SubsysEditor.cgi?page=ShowSubsystem&subsystem=", n>>

\* seed_id.split(':')[-1]
SeedNumber(sid) == sid[Len(sid)]

RegistryLabels == {NameAb, NameAdashb}
RoleNames      == {NameAb, NameAdashb, NameEmpty}
RoleIdSeq      == <<"ftr1", "ftr2">>
RoleIds        == {RoleIdSeq[k] : k \in DOMAIN RoleIdSeq}
Sources        == {"ModelSEED"}

\* nodes of seed.json that are SEED roles with a label
RoleNodes == [id : {RoleUrl(n) : n \in RoleNumbers}, lbl : RegistryLabels]

\* nodes the lookup skips: not a role URL, or no label
SkippedNodes == {[id |-> OtherUrl(1), lbl |-> NameAb], [id |-> RoleUrl(1), lbl |-> NameEmpty]}

SeedNodes == RoleNodes \cup SkippedNodes

SeqsUpTo(S, n) == UNION {[1..k -> S] : k \in 0..n}

Range(seq) == {seq[i] : i \in DOMAIN seq}

\* '~/roles/id/ftr1' as its '/'-separated segments; "" is <<>>
RoleRef(rid) == <<"~", "roles", "id", rid>>
RoleRefs     == {RoleRef(rid) : rid \in RoleIds} \cup {<<>>}

\* the answers the external mapper can give: None or a SEED role id
RastResults == {None} \cup {Some(SeedId(n)) : n \in 1..2}

----------------------------------------------------------------------------
(* Dicts *)

EmptyDict == <<>>
Put(d, k, v) == [x \in DOMAIN d \cup {k} |-> IF x = k THEN v ELSE d[x]]

----------------------------------------------------------------------------
(* NormalizationEnhancedMapper._build_normalization_lookup *)

\* re.search(r'Role=(\d+)', node_id), guarded by 'Role=' in node_id
RoleMatch(node_id) == IF node_id[1] = RoleUrlPrefix THEN Some(node_id[2]) ELSE None

RoleInfo(node) ==
    [seed_id       |-> SeedId(Val(RoleMatch(node.id))),
     seed_url      |-> node.id,
     original_name |-> node.lbl,
     normalized    |-> normalize_role(node.lbl)]

\* one iteration of the loop over graph['nodes']
AddSeedNode(acc, node) ==
    IF IsSome(RoleMatch(node.id)) /\ node.lbl # <<>>
    THEN LET role_info  == RoleInfo(node)
             normalized == role_info.normalized
         IN  IF normalized \in DOMAIN acc.by
             THEN LET existing == acc.by[normalized]
                      old == IF normalized \in DOMAIN acc.coll
                             THEN acc.coll[normalized] ELSE <<>>
                  IN  [acc EXCEPT !.coll =
                          Put(acc.coll, normalized, old \o <<existing, role_info>>)]
             ELSE [acc EXCEPT !.by = Put(acc.by, normalized, role_info)]
    ELSE acc

RECURSIVE BuildFrom(_, _)
BuildFrom(acc, nodes) ==
    IF nodes = <<>> THEN acc ELSE BuildFrom(AddSeedNode(acc, Head(nodes)), Tail(nodes))

BuildNormalizationLookup(nodes) == BuildFrom([by |-> EmptyDict, coll |-> EmptyDict], nodes)

----------------------------------------------------------------------------
(* Templates given to process_template *)

TemplateRolesNamed(names) ==
    [id : RoleIds, name : names, source : Sources,
     seed_id : {None}, seed_url : {None}, mapping_method : {None},
     hasNormalizedForm : {None}]

TemplateRoles == TemplateRolesNamed(RoleNames)

ComplexRoles == [templaterole_ref : RoleRefs]

TemplateComplexes ==
    [id : {"cpx1"}, complexroles : SeqsUpTo(ComplexRoles, Len(RoleIdSeq)),
     seed_id : {None}, seed_url : {None}, role_seeds : {None}]

\* a template has one role per role id and one complex, which lists at most
\* as many member roles as there are roles
TemplatesNamed(names) ==
    [roles : {rs \in [DOMAIN RoleIdSeq -> TemplateRolesNamed(names)] :
                \A k \in DOMAIN rs : rs[k].id = RoleIdSeq[k]},
     complexes : {<<c>> : c \in TemplateComplexes}]

Templates == TemplatesNamed(RoleNames)

EmptyTemplate == [roles |-> <<>>, complexes |-> <<>>]

ZeroStats ==
    [total |-> 0, modelseed |-> 0, kegg |-> 0, plantseed |-> 0, seed |-> 0,
     other |-> 0, in_complexes |-> 0, exact_mapped |-> 0, rast_mapped |-> 0,
     normalization_mapped |-> 0, normalized |-> 0, final_mapped |-> 0]

----------------------------------------------------------------------------
(* NormalizationEnhancedMapper._identify_roles_in_complexes *)

\* re.search(r'ftr\d+', role_ref): the first role id inside the reference
RECURSIVE FtrMatch(_)
FtrMatch(ref) ==
    IF ref = <<>> THEN None
    ELSE IF Head(ref) \in RoleIds THEN Some(Head(ref)) ELSE FtrMatch(Tail(ref))

IdentifyRolesInComplexes(t) ==
    {Val(FtrMatch(t.complexes[c].complexroles[r].templaterole_ref)) :
        <<c, r>> \in {cr \in (DOMAIN t.complexes) \X (1..Len(RoleIdSeq)) :
                        /\ cr[2] \in DOMAIN t.complexes[cr[1]].complexroles
                        /\ IsSome(FtrMatch(
                             t.complexes[cr[1]].complexroles[cr[2]].templaterole_ref))}}

----------------------------------------------------------------------------
(* NormalizationEnhancedMapper.map_role *)

\* lines 195-205: count by source
CountBySource(st, source) ==
    IF source = "ModelSEED" THEN [st EXCEPT !.modelseed = @ + 1]
    ELSE IF source = "KEGG" THEN [st EXCEPT !.kegg = @ + 1]
    ELSE IF source = "PlantSEED" THEN [st EXCEPT !.plantseed = @ + 1]
    ELSE IF source = "SEED" THEN [st EXCEPT !.seed = @ + 1]
    ELSE [st EXCEPT !.other = @ + 1]

\* mutant: the complex filter of line 208 is dropped
InComplexes_Always(role_id) == TRUE

\* line 208: only roles used in complexes are processed
InComplexes(role_id) == role_id \in roles_in_complexes

\* mutant: line 239 without "not seed_id"
NormalizationApplies_NoShortCircuit(seed_id, normalized) ==
    normalized \in DOMAIN seed_role_by_normalized

\* line 239: the normalization stage is entered
NormalizationApplies(seed_id, normalized) ==
    ~IsSome(seed_id) /\ normalized \in DOMAIN seed_role_by_normalized

\* mutant: a collision is noticed only until one has been recorded
HasCollision_UntilRecorded(normalized) ==
    normalized \in DOMAIN normalization_collisions /\ potential_collisions = <<>>

\* line 241: the normalized form has collisions
HasCollision(normalized) == normalized \in DOMAIN normalization_collisions

\* lines 244-248
CollisionInfo(role_name, normalized) ==
    [template_role |-> role_name,
     normalized    |-> normalized,
     colliding_seed_roles |->
        [k \in 1..Len(normalization_collisions[normalized]) |->
            normalization_collisions[normalized][k].original_name]]

\* lines 259-266
MatchInfo(role_id, role_name, seed_info, normalized) ==
    [template_role_id   |-> role_id,
     template_role_name |-> role_name,
     seed_id            |-> seed_info.seed_id,
     seed_role_name     |-> seed_info.original_name,
     normalized_form    |-> normalized,
     method             |-> "normalization"]

\* the mapper's mutable fields, as map_role reads and writes them
MapperFields ==
    [stats |-> stats, unmapped_roles |-> unmapped_roles,
     normalization_matches |-> normalization_matches,
     potential_collisions |-> potential_collisions,
     role_to_seed |-> role_to_seed]

\* map_role(role), where rast is what map_annotation(role name) returns.
\* The result holds the returned role and the mapper's fields after the call.
map_role(role, rast) ==
    LET m0 == [MapperFields EXCEPT
                 !.stats = CountBySource([stats EXCEPT !.total = @ + 1], role.source)]
        role_id    == role.id
        role_name  == role.name
        normalized == normalize_role(role_name)
    IN
    IF ~InComplexes(role_id) THEN [role |-> role, m |-> m0]
    ELSE
    LET m1 == [m0 EXCEPT !.stats.in_complexes = @ + 1] IN
    IF role_name = <<>> THEN [role |-> role, m |-> m1]
    ELSE
    LET role1 == [role EXCEPT !.hasNormalizedForm = Some(normalized)]
        m2    == [m1 EXCEPT !.stats.normalized = @ + 1]
        \* METHOD 1 (lines 229-236): seed_id = map_annotation(role_name)
        byRast == IsSome(rast)
        seed_id1  == rast
        seed_url1 == IF byRast THEN Some(RoleUrl(SeedNumber(Val(rast)))) ELSE None
        method1   == IF byRast THEN Some("exact_rast") ELSE None
        m3    == IF byRast THEN [m2 EXCEPT !.stats.rast_mapped = @ + 1] ELSE m2
        \* METHOD 2 (lines 239-267)
        tryNorm  == NormalizationApplies(seed_id1, normalized)
        skipped  == tryNorm /\ HasCollision(normalized)
        byNorm   == tryNorm /\ ~HasCollision(normalized)
        seed_info == seed_role_by_normalized[normalized]
        m4    == IF skipped
                 THEN [m3 EXCEPT !.potential_collisions =
                          Append(@, CollisionInfo(role_name, normalized))]
                 ELSE IF byNorm
                 THEN [m3 EXCEPT
                          !.stats.normalization_mapped = @ + 1,
                          !.normalization_matches =
                              Append(@, MatchInfo(role_id, role_name, seed_info, normalized))]
                 ELSE m3
        seed_id  == IF byNorm THEN Some(seed_info.seed_id) ELSE seed_id1
        seed_url == IF byNorm THEN Some(seed_info.seed_url) ELSE seed_url1
        mapping_method == IF byNorm THEN Some("normalization") ELSE method1
    IN
    \* lines 270-286
    IF IsSome(seed_id)
    THEN [role |-> [role1 EXCEPT !.seed_id = seed_id, !.seed_url = seed_url,
                                 !.mapping_method = mapping_method],
          m |-> [m4 EXCEPT !.stats.final_mapped = @ + 1,
                           !.role_to_seed =
                               IF role_id # "" THEN Put(@, role_id, Val(seed_id)) ELSE @]]
    ELSE [role |-> role1,
          m |-> [m4 EXCEPT !.unmapped_roles =
                     Append(@, [id |-> role_id, name |-> role_name,
                                normalized |-> normalized, source |-> role.source])]]

----------------------------------------------------------------------------
(* NormalizationEnhancedMapper.map_complex *)

RECURSIVE RoleSeeds(_)
RoleSeeds(role_refs) ==
    IF role_refs = <<>> THEN <<>>
    ELSE LET role_match == FtrMatch(Head(role_refs).templaterole_ref)
         IN  (IF IsSome(role_match) /\ Val(role_match) \in DOMAIN role_to_seed
              THEN <<role_to_seed[Val(role_match)]>> ELSE <<>>)
             \o RoleSeeds(Tail(role_refs))

map_complex(complex_data) ==
    LET role_seeds == RoleSeeds(complex_data.complexroles)
    IN  [complex_data EXCEPT
            !.seed_url = Some(<<"https://modelseed.org/biochem/complexes/", complex_data.id>>),
            !.seed_id  = Some(<<"seed.complex", complex_data.id>>),
            !.role_seeds = IF role_seeds # <<>> THEN Some(role_seeds) ELSE @]

----------------------------------------------------------------------------
(* NormalizationEnhancedMapper: construction and process_template *)

SetMax(S) == IF S = {} THEN 0 ELSE CHOOSE x \in S : \A y \in S : y <= x

\* The registries a mapper is built on, up to the naming of role numbers (a
\* role node carries a number at most one above the numbers before it) and
\* the place of a skipped node (first, if there is one).
Registries ==
    {nodes \in SeqsUpTo(SeedNodes, MaxNodes) :
        \A k \in DOMAIN nodes :
            IF nodes[k] \in SkippedNodes THEN k = 1
            ELSE nodes[k].id[2] <=
                    1 + SetMax({nodes[j].id[2] : j \in {i \in 1..(k - 1) : nodes[i] \in RoleNodes}})}

\* no CompleteSEEDOntologyBuilder exists
OwlBuilderAbsent ==
    /\ relationships = [complex_enables_reaction |-> {}, reaction_has_complex |-> {}]
    /\ complex_enables_reaction = {}
    /\ reaction_has_complex = {}
    /\ owl_complexes = {}
    /\ owl_reactions = {}
    /\ capable_of = {}
    /\ realized_by = {}
    /\ opc = "absent"

\* no normalizer is called on its own
NormalizersIdle ==
    /\ label = [none |-> TRUE, text |-> <<>>]
    /\ norm_fn = ""
    /\ norm_calls = 0
    /\ norm_prev = [raised |-> FALSE, key |-> <<>>]
    /\ norm_key = [raised |-> FALSE, key |-> <<>>]

\* no cross-reference list is read
XrefsIdle ==
    /\ xrefs_list = <<>>
    /\ xrefs = <<>>
    /\ compound = [seed_id |-> <<>>, attached |-> <<>>]
    /\ reaction = [seed_id |-> <<>>, attached |-> <<>>]
    /\ xop = ""

\* no entry point is run
NoRun ==
    /\ present = {}
    /\ validate = FALSE
    /\ rpc = "absent"
    /\ phases = <<>>
    /\ integrated = {}
    /\ written = {}
    /\ error = <<>>
    /\ result = <<>>

CleanIdle ==
    /\ template_data = <<>>
    /\ mapped_entities = <<>>
    /\ clean_data = <<>>
    /\ clean_file = <<>>
    /\ build_outcome = ""
    /\ cpos = "absent"

IndexIdle ==
    /\ index_nodes = <<>>
    /\ seed_roles = <<>>
    /\ name_index = <<>>
    /\ template_role_name = <<>>
    /\ matched = FALSE
    /\ ipos = "absent"

NoReport == coverage_report = <<>>

NoWorkflow ==
    /\ entity_counts = <<>>
    /\ summary_file = <<>>
    /\ step_result = <<>>
    /\ spos = "absent"

AfterRunAbsent == CleanIdle /\ IndexIdle /\ NoReport /\ NoWorkflow

LaterAbsent == NoRun /\ AfterRunAbsent

ExtrasAbsent == OwlBuilderAbsent /\ NormalizersIdle /\ XrefsIdle /\ LaterAbsent

\* no CorrectedOntologyBuilder exists while the mapper runs
BuilderAbsent ==
    /\ enhanced = [roles |-> <<>>, complexes |-> <<>>, reactions |-> <<>>]
    /\ enables_reaction_rels = <<>>
    /\ has_role_rels = <<>>
    /\ has_complex_rels = <<>>
    /\ reaction_type_rels = <<>>
    /\ bpc = "absent"

\* the state after NormalizationEnhancedMapper.__init__
MapperInitFrom(registries) ==
    /\ seed_nodes \in registries
    /\ seed_role_by_normalized = BuildNormalizationLookup(seed_nodes).by
    /\ normalization_collisions = BuildNormalizationLookup(seed_nodes).coll
    /\ rast_answers = EmptyDict
    /\ template = EmptyTemplate
    /\ roles_in_complexes = {}
    /\ stats = ZeroStats
    /\ unmapped_roles = <<>>
    /\ normalization_matches = <<>>
    /\ potential_collisions = <<>>
    /\ role_to_seed = EmptyDict
    /\ pc = "idle"
    /\ idx = 0
    /\ runs = 0
    /\ BuilderAbsent
    /\ ExtrasAbsent

MapperInit == MapperInitFrom(Registries)

\* where process_template continues after the roles loop has handled k roles
AfterRoles(t, k) ==
    IF k < Len(t.roles) THEN "roles"
    ELSE IF t.complexes # <<>> THEN "complexes" ELSE "done"

\* process_template up to the roles loop (lines 405-427)
StartRunFrom(templates) ==
    /\ \E t \in templates :
        /\ template' = t
        /\ roles_in_complexes' = IdentifyRolesInComplexes(t)
        /\ pc' = AfterRoles(t, 0)
    /\ stats' = ZeroStats
    /\ unmapped_roles' = <<>>
    /\ normalization_matches' = <<>>
    /\ potential_collisions' = <<>>
    /\ idx' = 1
    /\ runs' = runs + 1
    /\ UNCHANGED <<seed_nodes, seed_role_by_normalized, normalization_collisions,
                   rast_answers, role_to_seed>>
    /\ UNCHANGED <<bvars, evars>>

StartRun == StartRunFrom(Templates)

\* main(): the first process_template call on a new mapper
ProcessTemplateBegin == pc = "idle" /\ StartRun

\* a further process_template call on the same mapper object
ProcessTemplateAgain == pc = "done" /\ runs < MaxRuns /\ StartRun

\* map_annotation is called for a role used in a complex that has a name
AsksRast(role) == InComplexes(role.id) /\ role.name # <<>>

\* one iteration of the roles loop (lines 428-429): template['roles'][i] = map_role(role)
MapRoleStep ==
    /\ pc = "roles"
    /\ LET role == template.roles[idx] IN
       \E rast \in RastResults :
        /\ IF AsksRast(role)
           THEN role.name \in DOMAIN rast_answers => rast = rast_answers[role.name]
           ELSE rast = None
        /\ rast_answers' = IF AsksRast(role) THEN Put(rast_answers, role.name, rast)
                           ELSE rast_answers
        /\ LET r == map_role(role, rast) IN
            /\ template' = [template EXCEPT !.roles[idx] = r.role]
            /\ stats' = r.m.stats
            /\ unmapped_roles' = r.m.unmapped_roles
            /\ normalization_matches' = r.m.normalization_matches
            /\ potential_collisions' = r.m.potential_collisions
            /\ role_to_seed' = r.m.role_to_seed
    /\ pc' = AfterRoles(template, idx)
    /\ idx' = IF idx < Len(template.roles) THEN idx + 1 ELSE 1
    /\ UNCHANGED <<seed_nodes, seed_role_by_normalized, normalization_collisions,
                   roles_in_complexes, runs>>
    /\ UNCHANGED <<bvars, evars>>

\* one iteration of the complexes loop (lines 465-468)
MapComplexStep ==
    /\ pc = "complexes"
    /\ template' = [template EXCEPT !.complexes[idx] = map_complex(@)]
    /\ pc' = IF idx < Len(template.complexes) THEN "complexes" ELSE "done"
    /\ idx' = idx + 1
    /\ UNCHANGED <<seed_nodes, seed_role_by_normalized, normalization_collisions,
                   rast_answers, roles_in_complexes, stats, unmapped_roles,
                   normalization_matches, potential_collisions, role_to_seed, runs>>
    /\ UNCHANGED <<bvars, evars>>

MapperNext == ProcessTemplateBegin \/ MapRoleStep \/ MapComplexStep

MapperSpec == MapperInit /\ [][MapperNext]_vars

\* one mapper object used for several templates
RerunInit == MapperInit /\ Len(seed_nodes) <= MaxRerunNodes

RerunNext == MapperNext \/ ProcessTemplateAgain

RerunSpec == RerunInit /\ [][RerunNext]_vars

\* names and registry labels made of punctuation only, next to ordinary ones
NameDash == <<"-">>
NameUnderscoreDash == <<"_", "-">>

PunctuationNodes ==
    [id : {RoleUrl(1), RoleUrl(2)}, lbl : {NameDash, NameUnderscoreDash, NameAdashb}]

PunctuationRegistries == SeqsUpTo(PunctuationNodes, Len(RoleIdSeq))

PunctuationTemplates == TemplatesNamed({NameDash, NameAdashb})

PunctuationInit == MapperInitFrom(PunctuationRegistries)

ProcessPunctuationTemplate == pc = "idle" /\ StartRunFrom(PunctuationTemplates)

PunctuationNext == ProcessPunctuationTemplate \/ MapRoleStep \/ MapComplexStep

PunctuationSpec == PunctuationInit /\ [][PunctuationNext]_vars

----------------------------------------------------------------------------
(* CorrectedOntologyBuilder: the enhanced template it loads *)

ComplexIdSeq == <<"cpx1", "cpx2">>
ComplexRef(cid) == <<"~", "complexes", "id", cid>>   \* '~/complexes/id/cpx1'
ComplexRefs == {ComplexRef(ComplexIdSeq[k]) : k \in DOMAIN ComplexIdSeq}

\* reaction ids as their tokens ('rxn1_c' is <<"rxn1", "_c">>), with the type
ReactionHeads ==
    {[id |-> <<"rxn1", "_c">>, type |-> "conditional"],
     [id |-> <<"rxn1", "_e">>, type |-> "universal"],
     [id |-> <<"rxn2", "_c">>, type |-> "spontaneous"]}

\* the roles of an enhanced template: role k, when present, is unresolved or
\* carries one of the first k SEED ids; the first role is always present
EnhancedRole(k) ==
    [id : {RoleIdSeq[k]}, seed_id : {None} \cup {Some(SeedId(n)) : n \in 1..k}]

EnhancedRoleLists ==
    UNION {{<<r1>> \o rest : rest \in {<<>>} \cup {<<r2>> : r2 \in EnhancedRole(2)}} :
              r1 \in EnhancedRole(1)}

\* complexroles: each role at most once, in the order of the role ids
RECURSIVE MembersFrom(_, _)
MembersFrom(f, k) ==
    IF k > Len(RoleIdSeq) THEN <<>>
    ELSE (IF f[k] = "absent" THEN <<>>
          ELSE <<[templaterole_ref |-> RoleRef(RoleIdSeq[k]),
                  triggering |-> IF f[k] = "trigger" THEN 1 ELSE 0]>>)
         \o MembersFrom(f, k + 1)

MemberLists ==
    {MembersFrom(f, 1) : f \in [DOMAIN RoleIdSeq -> {"absent", "helper", "trigger"}]}

\* the members of the second complex: none, the last role as helper or as
\* trigger, or a member whose templaterole_ref is empty
LastRoleMemberLists ==
    {<<>>, <<[templaterole_ref |-> <<>>, triggering |-> 1]>>}
    \cup {<<[templaterole_ref |-> RoleRef(RoleIdSeq[Len(RoleIdSeq)]), triggering |-> t]>> :
              t \in {0, 1}}

EnhancedComplex(k) ==
    [id : {ComplexIdSeq[k]},
     complexroles : IF k = 1 THEN MemberLists ELSE LastRoleMemberLists]

\* the first complex is always present, the second may be missing
EnhancedComplexLists ==
    UNION {{<<c1>> \o rest : rest \in {<<>>} \cup {<<c2>> : c2 \in EnhancedComplex(2)}} :
              c1 \in EnhancedComplex(1)}

\* a reaction lists at most as many complex references as there are complexes
EnhancedReactions ==
    {[id |-> h.id, type |-> h.type, templatecomplex_refs |-> refs] :
        h \in ReactionHeads, refs \in SeqsUpTo(ComplexRefs, Len(ComplexIdSeq))}

EnhancedTemplates ==
    [roles : EnhancedRoleLists, complexes : EnhancedComplexLists,
     reactions : SeqsUpTo(EnhancedReactions, MaxRxns)]

----------------------------------------------------------------------------
(* CorrectedOntologyBuilder.process_template_relationships *)

Link(s, p, o) == [subject |-> s, predicate |-> p, object |-> o]

HAS_COMPLEX      == "https://modelseed.org/ontology/has_complex"
HAS_ROLE         == "https://modelseed.org/ontology/has_role"
ENABLES_REACTION == "https://modelseed.org/ontology/enables_reaction"
REACTION_TYPE    == "https://modelseed.org/ontology/reaction_type"

\* rxn['id'].replace('_c', '').replace('_e', '').replace('_p', '')
RECURSIVE RxnBaseId(_)
RxnBaseId(id) ==
    IF id = <<>> THEN <<>>
    ELSE (IF Head(id) \in {"_c", "_e", "_p"} THEN <<>> ELSE <<Head(id)>>)
         \o RxnBaseId(Tail(id))

ReactionUri(rxn_base_id) == <<"https://modelseed.org/biochem/reactions/", rxn_base_id>>
ComplexUri(cpx_id)       == <<"https://modelseed.org/biochem/complexes/", cpx_id>>
TemplateRoleUri(role_id) == <<"https://modelseed.org/template/roles/", role_id>>

\* ref.split('/')[-1]
LastSegment(ref) == IF ref = <<>> THEN "" ELSE ref[Len(ref)]

\* next((x for x in xs if x['id'] == id), None)
RECURSIVE FindById(_, _)
FindById(xs, id) ==
    IF xs = <<>> THEN None
    ELSE IF Head(xs).id = id THEN Some(Head(xs)) ELSE FindById(Tail(xs), id)

\* line 182: 'seed_id' in role and role['seed_id']
HasSeedId(role) == IsSome(role.seed_id)

\* mutant: the seed_id branch of lines 182-185 is never taken
RoleUri_TemplateOnly(role, role_id) == TemplateRoleUri(role_id)

\* lines 182-188: role['seed_id'].replace('seed.role:', '') is the role number
RoleUri(role, role_id) ==
    IF HasSeedId(role) THEN RoleUrl(SeedNumber(Val(role.seed_id)))
    ELSE TemplateRoleUri(role_id)

\* mutant: the triggering test of line 199 is dropped
IsTriggering_Always(complex_role) == TRUE

\* line 199: complex_role.get('triggering', 0) == 1
IsTriggering(complex_role) == complex_role.triggering = 1

\* lines 170-205: the loop over cpx['complexroles']; acc holds the links so far
RECURSIVE ProcessComplexRoles(_, _, _, _)
ProcessComplexRoles(acc, complexroles, complex_uri, reaction_uri) ==
    IF complexroles = <<>> THEN acc
    ELSE
    LET complex_role == Head(complexroles)
        role_ref == complex_role.templaterole_ref
        role_id  == LastSegment(role_ref)
        role     == FindById(enhanced.roles, role_id)
        next ==
            IF role_ref = <<>> \/ ~IsSome(role) THEN acc
            ELSE LET role_uri == RoleUri(Val(role), role_id)
                     a1 == [acc EXCEPT !.has_role =
                               Append(@, Link(complex_uri, HAS_ROLE, role_uri))]
                 IN  IF IsTriggering(complex_role)
                     THEN [a1 EXCEPT !.enables_reaction =
                              Append(@, Link(role_uri, ENABLES_REACTION, reaction_uri))]
                     ELSE a1
    IN  ProcessComplexRoles(next, Tail(complexroles), complex_uri, reaction_uri)

\* mutant: a complex without member roles is skipped like a missing one
ComplexFound_WithMembers(cpx) == IsSome(cpx) /\ Val(cpx).complexroles # <<>>

\* lines 154-157: the referenced complex is in the template ("if not cpx: continue")
ComplexFound(cpx) == IsSome(cpx)

\* lines 152-205: the loop over rxn['templatecomplex_refs']
RECURSIVE ProcessComplexRefs(_, _, _)
ProcessComplexRefs(acc, refs, reaction_uri) ==
    IF refs = <<>> THEN acc
    ELSE
    LET cpx_id == LastSegment(Head(refs))
        cpx    == FindById(enhanced.complexes, cpx_id)
        next ==
            IF ~ComplexFound(cpx) THEN acc
            ELSE LET complex_uri == ComplexUri(cpx_id)
                     a1 == [acc EXCEPT !.has_complex =
                               Append(@, Link(reaction_uri, HAS_COMPLEX, complex_uri))]
                 IN  ProcessComplexRoles(a1, Val(cpx).complexroles, complex_uri, reaction_uri)
    IN  ProcessComplexRefs(next, Tail(refs), reaction_uri)

\* lines 138-149: reaction_type links
ReactionTypeLinks(rxn) ==
    IF rxn.type \in {"spontaneous", "universal"}
    THEN <<Link(<<"seed.reaction", RxnBaseId(rxn.id)>>, REACTION_TYPE, rxn.type)>>
    ELSE <<>>

\* lines 133-205: the loop over self.template['reactions']
RECURSIVE ProcessReactions(_, _)
ProcessReactions(acc, reactions) ==
    IF reactions = <<>> THEN acc
    ELSE LET rxn == Head(reactions)
             reaction_uri == ReactionUri(RxnBaseId(rxn.id))
             a1 == [acc EXCEPT !.reaction_type = @ \o ReactionTypeLinks(rxn)]
         IN  ProcessReactions(
                 ProcessComplexRefs(a1, rxn.templatecomplex_refs, reaction_uri),
                 Tail(reactions))

MapperAbsent ==
    /\ seed_nodes = <<>>
    /\ seed_role_by_normalized = EmptyDict
    /\ normalization_collisions = EmptyDict
    /\ rast_answers = EmptyDict
    /\ template = EmptyTemplate
    /\ roles_in_complexes = {}
    /\ stats = ZeroStats
    /\ unmapped_roles = <<>>
    /\ normalization_matches = <<>>
    /\ potential_collisions = <<>>
    /\ role_to_seed = EmptyDict
    /\ pc = "absent"
    /\ idx = 0
    /\ runs = 0

\* the state after CorrectedOntologyBuilder.__init__ (load_source_data)
BuilderInit ==
    /\ enhanced \in EnhancedTemplates
    /\ enables_reaction_rels = <<>>
    /\ has_role_rels = <<>>
    /\ has_complex_rels = <<>>
    /\ reaction_type_rels = <<>>
    /\ bpc = "loaded"
    /\ MapperAbsent
    /\ ExtrasAbsent

process_template_relationships ==
    /\ bpc = "loaded"
    /\ LET out == ProcessReactions(
                      [has_complex |-> has_complex_rels, has_role |-> has_role_rels,
                       enables_reaction |-> enables_reaction_rels,
                       reaction_type |-> reaction_type_rels],
                      enhanced.reactions)
       IN  /\ has_complex_rels' = out.has_complex
           /\ has_role_rels' = out.has_role
           /\ enables_reaction_rels' = out.enables_reaction
           /\ reaction_type_rels' = out.reaction_type
    /\ bpc' = "related"
    /\ UNCHANGED enhanced
    /\ UNCHANGED <<mvars, evars>>

BuilderNext == process_template_relationships

BuilderSpec == BuilderInit /\ [][BuilderNext]_vars

----------------------------------------------------------------------------
(* CompleteSEEDOntologyBuilder (pyobo_builder/build_seed_ontology.py) *)

\* identifiers as <<prefix, local id>>: 'seed.complex:cpx1' is <<"seed.complex:", "cpx1">>
OwlComplexIds  == {"cpx1", "cpx2"}
OwlReactionIds == {"rxn1", "rxn2"}
ComplexSeedIds  == {<<"seed.complex:", "cpx1">>, <<"cpx:", "cpx2">>, <<"seed.complex:", "cpx2">>}
ReactionSeedIds == {<<"seed.reaction:", "rxn1">>, <<"seed.reaction:", "rxn2">>}

\* the two relations of ontology_relationships.json this builder reads, each a
\* dict from an id to a list of ids
RelationshipFiles ==
    [complex_enables_reaction : SUBSET (ComplexSeedIds \X {<<"seed.reaction:", "rxn1">>}),
     reaction_has_complex     : SUBSET (ReactionSeedIds \X {<<"seed.complex:", "cpx1">>,
                                                            <<"cpx:", "cpx2">>})]

OwlComplexUri(cpx_id)  == <<"https://modelseed.org/biochem/complexes/", cpx_id>>
OwlReactionUri(rxn_id) == <<"https://modelseed.org/biochem/reactions/", rxn_id>>

\* __init__: empty containers, nothing read yet
OwlInit ==
    /\ relationships \in RelationshipFiles
    /\ complex_enables_reaction = {}
    /\ reaction_has_complex = {}
    /\ owl_complexes = {}
    /\ owl_reactions = {}
    /\ capable_of = {}
    /\ realized_by = {}
    /\ opc = "new"
    /\ MapperAbsent
    /\ BuilderAbsent
    /\ NormalizersIdle
    /\ XrefsIdle
    /\ LaterAbsent

\* load_relationships: each relation is read from its own key of the file
load_relationships ==
    /\ opc = "new"
    /\ complex_enables_reaction' = relationships.complex_enables_reaction
    /\ reaction_has_complex' = relationships.reaction_has_complex
    /\ opc' = "relationships"
    /\ UNCHANGED <<relationships, owl_complexes, owl_reactions, capable_of, realized_by>>
    /\ UNCHANGED <<mvars, bvars, nvars, xvars, lvars>>

\* load_reactions and load_complexes_from_template fill self.reactions and
\* self.complexes from seed.json / modelseed.json and the enhanced template
load_entities ==
    /\ opc = "relationships"
    /\ \E rs \in SUBSET OwlReactionIds, cs \in SUBSET OwlComplexIds :
          /\ owl_reactions' = rs
          /\ owl_complexes' = cs
    /\ opc' = "entities"
    /\ UNCHANGED <<relationships, complex_enables_reaction, reaction_has_complex,
                   capable_of, realized_by>>
    /\ UNCHANGED <<mvars, bvars, nvars, xvars, lvars>>

\* generate_owl, lines 610-630: one RO_0002215 statement per pair of
\* complex_enables_reaction whose ids carry the prefixes and are loaded
CapableOfStatements ==
    {<<OwlComplexUri(p[1][2]), OwlReactionUri(p[2][2])>> :
        p \in {q \in complex_enables_reaction :
                 /\ q[1][1] = "seed.complex:"
                 /\ q[1][2] \in owl_complexes
                 /\ q[2][1] = "seed.reaction:"
                 /\ q[2][2] \in owl_reactions}}

\* generate_owl, lines 632-652: one RO_0000058 statement per pair of
\* reaction_has_complex whose ids carry the prefixes and are loaded
RealizedByStatements ==
    {<<OwlReactionUri(p[1][2]), OwlComplexUri(p[2][2])>> :
        p \in {q \in reaction_has_complex :
                 /\ q[1][1] = "seed.reaction:"
                 /\ q[1][2] \in owl_reactions
                 /\ q[2][1] = "seed.complex:"
                 /\ q[2][2] \in owl_complexes}}

generate_owl ==
    /\ opc = "entities"
    /\ capable_of' = CapableOfStatements
    /\ realized_by' = RealizedByStatements
    /\ opc' = "written"
    /\ UNCHANGED <<relationships, complex_enables_reaction, reaction_has_complex,
                   owl_complexes, owl_reactions>>
    /\ UNCHANGED <<mvars, bvars, nvars, xvars, lvars>>

OwlNext == load_relationships \/ load_entities \/ generate_owl

OwlSpec == OwlInit /\ [][OwlNext]_vars

----------------------------------------------------------------------------
(* The role-name normalizers of the repository *)

\* an argument is None or a string; a call returns a string or raises
NoneArg      == [none |-> TRUE, text |-> <<>>]
StrArg(t)    == [none |-> FALSE, text |-> t]
Returned(k)  == [raised |-> FALSE, key |-> k]
Raised       == [raised |-> TRUE, key |-> <<>>]

\* Python's "not name": None and the empty string
Falsy(arg) == arg.none \/ arg.text = <<>>

\* template_enhancer.normalize_role called with any argument: None has no strip()
normalize_role_call(arg) ==
    IF arg.none THEN Raised ELSE Returned(normalize_role(arg.text))

\* build_seed_ontology.normalize_role: the same two lines
seed_ontology_normalize_role(arg) ==
    IF arg.none THEN Raised ELSE Returned(RemoveNonAlnum(Lower(Strip(arg.text))))

\* mutant: the EC annotations are left in the name
RemoveEcAnnotations_Keep(s) == s

\* re.sub(r'\(EC[^)]*\)', '', s)
RECURSIVE RemoveEcAnnotations(_)
RemoveEcAnnotations(s) ==
    IF s = <<>> THEN <<>>
    ELSE IF StartsWith(s, <<"(", "E", "C">>) /\ \E i \in 4..Len(s) : s[i] = ")"
         THEN LET close == CHOOSE i \in 4..Len(s) :
                              s[i] = ")" /\ \A k \in 4..(i - 1) : s[k] # ")"
              IN  RemoveEcAnnotations(SubSeq(s, close + 1, Len(s)))
         ELSE <<Head(s)>> \o RemoveEcAnnotations(Tail(s))

\* CorrectedOntologyBuilder.normalize_role_name
normalize_role_name(arg) ==
    IF Falsy(arg) THEN Returned(<<>>)
    ELSE Returned(RemoveNonAlnum(Lower(CollapseSpaces(
             Strip(RemoveEcAnnotations(Strip(arg.text)))))))

\* re.sub(r'^ec\s+', '', s)
RemoveEcPrefix(s) ==
    IF StartsWith(s, <<"e", "c">>) /\ Len(s) >= 3 /\ IsSpace(s[3])
    THEN LStrip(SubSeq(s, 3, Len(s)))
    ELSE s

\* a character of the class [\d\.-]
IsEcNumberChar(c) == c \in {"1", ".", "-"}

EcNumberRunStart(s, n) ==
    CHOOSE i \in 1..(n + 1) :
        /\ \A k \in i..n : IsEcNumberChar(s[k])
        /\ i = 1 \/ ~IsEcNumberChar(s[i - 1])

\* re.sub(r'\s+\(ec\s+[\d\.-]+\)$', '', s): the match ends at the end of s
RemoveEcSuffix(s) ==
    LET n == Len(s)
        d == EcNumberRunStart(s, n - 1)
        w == SpaceRunStart(s, d - 1)
        p == w - 3
        v == SpaceRunStart(s, p - 1)
    IN  IF /\ n >= 1
           /\ s[n] = ")"
           /\ d <= n - 1
           /\ w <= d - 1
           /\ p >= 1
           /\ SubSeq(s, p, p + 2) = <<"(", "e", "c">>
           /\ v <= p - 1
        THEN SubSeq(s, 1, v - 1)
        ELSE s

\* SEEDRolesExtractor._normalize_role_name
extractor_normalize_role_name(arg) ==
    IF Falsy(arg) THEN Returned(<<>>)
    ELSE Returned(RemoveEcSuffix(RemoveEcPrefix(CollapseSpaces(Strip(Lower(arg.text))))))

\* re.sub(r'[^\w\s]', ' ', s): "_" is a word character
RECURSIVE PunctuationToSpace(_)
PunctuationToSpace(s) ==
    IF s = <<>> THEN <<>>
    ELSE <<IF IsAlnum(Head(s)) \/ Head(s) = "_" \/ IsSpace(Head(s)) THEN Head(s) ELSE " ">>
         \o PunctuationToSpace(Tail(s))

\* CleanSEEDOntologyBuilder.normalize_name
clean_normalize_name(arg) ==
    IF Falsy(arg) THEN Returned(<<>>)
    ELSE Returned(Strip(CollapseSpaces(PunctuationToSpace(Lower(arg.text)))))

Normalizers ==
    {"normalize_role", "seed_ontology_normalize_role", "normalize_role_name",
     "extractor_normalize_role_name", "clean_normalize_name"}

NormalizerResult(fn, arg) ==
    CASE fn = "normalize_role" -> normalize_role_call(arg)
      [] fn = "seed_ontology_normalize_role" -> seed_ontology_normalize_role(arg)
      [] fn = "normalize_role_name" -> normalize_role_name(arg)
      [] fn = "extractor_normalize_role_name" -> extractor_normalize_role_name(arg)
      [] fn = "clean_normalize_name" -> clean_normalize_name(arg)

\* labels are built from these pieces: letters, separators, EC annotations in
\* the spellings the normalizers look for
LabelTokens ==
    {<<"A">>, <<"b">>, <<" ">>, <<"_", "-">>, <<"e", "c", " ">>,
     <<" ", "(", "E", "C", " ", "1", ".", "1", ")">>,
     <<"(", "E", "C">>,
     <<" ", "(", "e", "c", " ", "1", ")">>}

RECURSIVE LabelsOf(_)
LabelsOf(n) ==
    IF n = 0 THEN {<<>>}
    ELSE LabelsOf(n - 1) \cup {l \o t : l \in LabelsOf(n - 1), t \in LabelTokens}

Labels == LabelsOf(MaxTokens)

NormInit ==
    /\ label \in {NoneArg} \cup {StrArg(t) : t \in Labels}
    /\ norm_fn = ""
    /\ norm_calls = 0
    /\ norm_prev = Returned(<<>>)
    /\ norm_key = Returned(<<>>)
    /\ MapperAbsent
    /\ BuilderAbsent
    /\ OwlBuilderAbsent
    /\ XrefsIdle
    /\ LaterAbsent

\* a first call of normalizer fn on the label, or a second call of the same
\* normalizer on what the first call returned
CallNormalizer(fn) ==
    /\ \/ /\ norm_calls = 0
          /\ norm_key' = NormalizerResult(fn, label)
          /\ norm_prev' = norm_prev
       \/ /\ norm_calls = 1
          /\ norm_fn = fn
          /\ ~norm_key.raised
          /\ norm_key' = NormalizerResult(fn, StrArg(norm_key.key))
          /\ norm_prev' = norm_key
    /\ norm_fn' = fn
    /\ norm_calls' = norm_calls + 1
    /\ UNCHANGED label
    /\ UNCHANGED <<mvars, bvars, ovars, xvars, lvars>>

call_normalize_role == CallNormalizer("normalize_role")
call_seed_ontology_normalize_role == CallNormalizer("seed_ontology_normalize_role")
call_normalize_role_name == CallNormalizer("normalize_role_name")
call_extractor_normalize_role_name == CallNormalizer("extractor_normalize_role_name")
call_clean_normalize_name == CallNormalizer("clean_normalize_name")

NormNext ==
    \/ call_normalize_role
    \/ call_seed_ontology_normalize_role
    \/ call_normalize_role_name
    \/ call_extractor_normalize_role_name
    \/ call_clean_normalize_name

NormSpec == NormInit /\ [][NormNext]_vars

----------------------------------------------------------------------------
(* Cross-references (ModelSEEDExtractor._parse_xrefs, modelseed_extractor.py; *)
(* OntologyMapper.map_compound and map_reaction, add_ontology_mappings.py).   *)
(* The text of a cross-reference is a sequence of tokens: a database prefix,  *)
(* an identifier, a semicolon or a space.  No token is part of another.       *)

\* str.replace(old, ''): every occurrence goes, not only the leading one
Replace(val, old) == SelectSeq(val, LAMBDA c : c # old)

\* str.rstrip(';')
RECURSIVE RStripSemicolons(_)
RStripSemicolons(s) ==
    IF s # <<>> /\ s[Len(s)] = ";" THEN RStripSemicolons(SubSeq(s, 1, Len(s) - 1))
    ELSE s

\* str.split(';'): a text without semicolon, the empty one too, is one part
RECURSIVE SplitSemicolons(_)
SplitSemicolons(s) ==
    IF \A i \in DOMAIN s : s[i] # ";" THEN <<s>>
    ELSE LET i == CHOOSE i \in DOMAIN s : s[i] = ";" /\ \A j \in 1..(i - 1) : s[j] # ";"
         IN  <<SubSeq(s, 1, i - 1)>> \o SplitSemicolons(SubSeq(s, i + 1, Len(s)))

StrippedNonEmpty_KeepBlank(parts) == parts

\* [kid.strip() for kid in kegg_ids if kid.strip()]
StrippedNonEmpty(parts) ==
    SelectSeq([i \in DOMAIN parts |-> Strip(parts[i])], LAMBDA kid : kid # <<>>)

\* xref_val.replace(prefix, '').rstrip(';').split(';'), stripped and filtered
MultipleIds(xref_val, prefix) ==
    StrippedNonEmpty(SplitSemicolons(RStripSemicolons(Replace(xref_val, prefix))))

\* xrefs.setdefault(key, [])
SetDefault(d, key) == IF key \in DOMAIN d THEN d ELSE Put(d, key, <<>>)

\* xrefs.setdefault(key, []).extend(ids); append is extend with one element
Extend(d, key, ids) == Put(SetDefault(d, key), key, SetDefault(d, key)[key] \o ids)

ParseXref_StoreAny(d, xref_val) == Extend(d, "other", <<xref_val>>)

\* the body of the loop of _parse_xrefs
ParseXref(d, xref_val) ==
    IF StartsWith(xref_val, <<"CHEBI:">>)
    THEN Extend(d, "chebi", <<xref_val>>)
    ELSE IF StartsWith(xref_val, <<"kegg.compound:">>)
    THEN Extend(d, "kegg", MultipleIds(xref_val, "kegg.compound:"))
    ELSE IF StartsWith(xref_val, <<"metacyc.compound:">>)
    THEN Extend(d, "metacyc", MultipleIds(xref_val, "metacyc.compound:"))
    ELSE IF StartsWith(xref_val, <<"seed.reaction:">>)
    THEN Extend(d, "seed_reaction", <<Replace(xref_val, "seed.reaction:")>>)
    ELSE d

RECURSIVE ParseXrefsFrom(_, _)
ParseXrefsFrom(d, list) ==
    IF list = <<>> THEN d
    ELSE ParseXrefsFrom(ParseXref(d, Head(list)), Tail(list))

\* ModelSEEDExtractor._parse_xrefs
parse_xrefs(list) == ParseXrefsFrom(EmptyDict, list)

\* the loop of map_compound: the lists kegg_ids and chebi_ids
RECURSIVE CompoundIds(_, _)
CompoundIds(ids, list) ==
    IF list = <<>> THEN ids
    ELSE LET val == Head(list)
         IN  CompoundIds(
                 IF StartsWith(val, <<"KEGG.COMPOUND:">>)
                 THEN [ids EXCEPT !.kegg_ids = Append(@, Replace(val, "KEGG.COMPOUND:"))]
                 ELSE IF StartsWith(val, <<"CHEBI:">>)
                 THEN [ids EXCEPT !.chebi_ids = Append(@, val)]
                 ELSE ids,
                 Tail(list))

\* the loop of map_reaction: the lists ec_numbers, kegg_ids and metacyc_ids
RECURSIVE ReactionIds(_, _)
ReactionIds(ids, list) ==
    IF list = <<>> THEN ids
    ELSE LET val == Head(list)
         IN  ReactionIds(
                 IF StartsWith(val, <<"EC:">>)
                 THEN [ids EXCEPT !.ec_numbers = Append(@, Replace(val, "EC:"))]
                 ELSE IF StartsWith(val, <<"KEGG.REACTION:">>)
                 THEN [ids EXCEPT !.kegg_ids = Append(@, Replace(val, "KEGG.REACTION:"))]
                 ELSE IF StartsWith(val, <<"MetaCyc:">>)
                 THEN [ids EXCEPT !.metacyc_ids = Append(@, Replace(val, "MetaCyc:"))]
                 ELSE ids,
                 Tail(list))

\* "if kegg_ids: compound['kegg_ids'] = kegg_ids": only non-empty lists are attached
Attached(ids) == [key \in {k \in DOMAIN ids : ids[k] # <<>>} |-> ids[key]]

\* the prefixes the three functions test for, one that none tests for, and no
\* prefix at all
XrefHeads ==
    {<<"CHEBI:">>, <<"KEGG.COMPOUND:">>, <<"kegg.compound:">>,
     <<"metacyc.compound:">>, <<"MetaCyc:">>, <<"EC:">>, <<"KEGG.REACTION:">>,
     <<"seed.reaction:">>, <<"chebi:">>, <<>>}

\* what follows the prefix: nothing, a space, one identifier, identifiers
\* separated by semicolons with spaces around them and a trailing semicolon,
\* and identifiers of which the second repeats its prefix
XrefValues ==
    {<<>>, <<" ">>, <<"C00002">>,
     <<"C00002", ";", " ", "C00008", " ", ";">>,
     <<"C00008", ";", "kegg.compound:", "C00002">>}

RawXrefs == {head \o value : head \in XrefHeads, value \in XrefValues}

\* ["CHEBI:15422", "kegg.compound:C00002;C00008;"]
ExampleXrefs ==
    << <<"CHEBI:", "15422">>, <<"kegg.compound:", "C00002", ";", "C00008", ";">> >>

XrefLists == SeqsUpTo(RawXrefs, MaxXrefs) \cup {ExampleXrefs}

XrefInit ==
    /\ xrefs_list \in XrefLists
    /\ xrefs = EmptyDict
    /\ compound = [seed_id |-> None, attached |-> EmptyDict]
    /\ reaction = [seed_id |-> None, attached |-> EmptyDict]
    /\ xop = ""
    /\ MapperAbsent
    /\ BuilderAbsent
    /\ OwlBuilderAbsent
    /\ NormalizersIdle
    /\ LaterAbsent

\* _parse_xrefs(node['meta']['xrefs'])
call_parse_xrefs ==
    /\ xop = ""
    /\ xrefs' = parse_xrefs(xrefs_list)
    /\ xop' = "_parse_xrefs"
    /\ UNCHANGED <<xrefs_list, compound, reaction>>
    /\ UNCHANGED <<mvars, bvars, ovars, nvars, lvars>>

\* map_compound of a compound whose node, when compound_lookup has one with
\* 'meta', carries xrefs_list; stats and unmapped_compounds hold no
\* cross-reference and are left out
map_compound ==
    /\ xop = ""
    /\ \E found \in BOOLEAN :
          compound' =
              IF found
              THEN [seed_id |-> Some(<<"seed.compound:", "cpd">>),
                    attached |-> Attached(CompoundIds(
                                     [kegg_ids |-> <<>>, chebi_ids |-> <<>>],
                                     xrefs_list))]
              ELSE compound
    /\ xop' = "map_compound"
    /\ UNCHANGED <<xrefs_list, xrefs, reaction>>
    /\ UNCHANGED <<mvars, bvars, ovars, nvars, lvars>>

\* map_reaction, likewise, with reaction_lookup
map_reaction ==
    /\ xop = ""
    /\ \E found \in BOOLEAN :
          reaction' =
              IF found
              THEN [seed_id |-> Some(<<"seed.reaction:", "rxn">>),
                    attached |-> Attached(ReactionIds(
                                     [ec_numbers |-> <<>>, kegg_ids |-> <<>>,
                                      metacyc_ids |-> <<>>],
                                     xrefs_list))]
              ELSE reaction
    /\ xop' = "map_reaction"
    /\ UNCHANGED <<xrefs_list, xrefs, compound>>
    /\ UNCHANGED <<mvars, bvars, ovars, nvars, lvars>>

XrefNext ==
    \/ call_parse_xrefs
    \/ map_compound
    \/ map_reaction

XrefSpec == XrefInit /\ [][XrefNext]_vars

----------------------------------------------------------------------------
(* Runs of the entry points and their failures: process_template with an   *)
(* external mapper that raises (template_enhancer.py),                      *)
(* CompleteSEEDOntologyBuilder.build_complete_ontology                      *)
(* (build_seed_ontology.py) and SEEDUnifiedBuilder (build_seed_unified.py). *)

\* map_role up to the call of map_annotation (lines 190-222), which raises
MapRoleRaises ==
    /\ pc = "roles"
    /\ AsksRast(template.roles[idx])
    /\ template' = [template EXCEPT
                       !.roles[idx].hasNormalizedForm =
                           Some(normalize_role(template.roles[idx].name))]
    /\ stats' = [CountBySource([stats EXCEPT !.total = @ + 1],
                               template.roles[idx].source)
                    EXCEPT !.in_complexes = @ + 1, !.normalized = @ + 1]
    /\ pc' = "raised"
    /\ error' = Some("map_annotation")
    /\ UNCHANGED <<seed_nodes, seed_role_by_normalized, normalization_collisions,
                   rast_answers, roles_in_complexes, unmapped_roles,
                   normalization_matches, potential_collisions, role_to_seed, idx,
                   runs>>
    /\ UNCHANGED <<present, validate, rpc, phases, integrated, written, result>>
    /\ UNCHANGED <<bvars, ovars, nvars, xvars, zvars>>

\* what process_template writes once its loops are over (lines 471-477)
EnhancerOutputs ==
    {"enhanced_template.json", "unmapped_normalization_enhanced.csv",
     "normalization_successes.json", "coverage_improvement.json"}

\* the end of process_template: the enhanced template and the reports
SaveEnhancedTemplate ==
    /\ pc = "done"
    /\ written = {}
    /\ written' = EnhancerOutputs
    /\ UNCHANGED <<present, validate, rpc, phases, integrated, error, result>>
    /\ UNCHANGED <<mvars, bvars, ovars, nvars, xvars, zvars>>

\* the files load_missing_elements looks for (lines 43-44)
MissingElementsFiles ==
    {"extracted_cross_references.json", "extracted_owl_restrictions.json"}

\* the files the other load_ methods open, in the order of
\* build_complete_ontology (lines 736-740)
LoadedFiles ==
    <<"ontology_relationships.json", "modelseed.json.gz", "seed.json",
      "GramNegModelTemplateV6_with_ontology.json">>

OntologySources == MissingElementsFiles \cup {LoadedFiles[k] : k \in DOMAIN LoadedFiles}

OntologyOutputs == {"seed_unified.owl", "seed_unified.json"}

\* load_missing_elements: a file that does not exist is reported and skipped
load_missing_elements(files) == MissingElementsFiles \cap files

\* the first file of LoadedFiles that open() does not find, if there is one
FirstMissing(files) ==
    LET missing == {k \in DOMAIN LoadedFiles : LoadedFiles[k] \notin files}
    IN  IF missing = {} THEN None
        ELSE Some(LoadedFiles[CHOOSE k \in missing : \A j \in missing : k <= j])

\* build_complete_ontology: the loads, generate_owl, generate_json_summary
\* and the two writes
build_complete_ontology ==
    /\ rpc = "CompleteSEEDOntologyBuilder"
    /\ integrated' = load_missing_elements(present)
    /\ IF IsSome(FirstMissing(present))
       THEN /\ error' = Some("FileNotFoundError")
            /\ rpc' = "raised"
            /\ written' = written
       ELSE /\ error' = error
            /\ rpc' = "returned"
            /\ written' = written \cup OntologyOutputs
    /\ UNCHANGED <<present, validate, phases, result>>
    /\ UNCHANGED <<mvars, bvars, ovars, nvars, xvars, zvars>>

\* template_path, modelseed_path and seed_path of SEEDUnifiedBuilder
UnifiedSources ==
    {"GramNegModelTemplateV6_with_ontology.json", "modelseed.json.gz", "seed.json"}

\* SEEDUnifiedBuilder.__init__, which ends with _validate_source_files
SEEDUnifiedBuilder_init ==
    /\ rpc = "SEEDUnifiedBuilder"
    /\ IF UnifiedSources \subseteq present
       THEN rpc' = "constructed" /\ error' = error
       ELSE rpc' = "raised" /\ error' = Some("FileNotFoundError")
    /\ UNCHANGED <<present, validate, phases, integrated, written, result>>
    /\ UNCHANGED <<mvars, bvars, ovars, nvars, xvars, zvars>>

\* the files a phase writes, in the order it writes them
PhaseFiles ==
    [extract  |-> <<"template_data.json", "modelseed_data.json",
                    "seed_roles_data.json", "extraction_summary.json">>,
     build    |-> <<>>,
     export   |-> <<"seed_unified.owl", "seed_unified.json", "term_mappings.json">>,
     validate |-> <<"validation_report.json">>]

\* the phases of build_full_pipeline in the order of lines 312-323
PhaseOrder == <<"extract", "build", "export", "validate">>

\* the position after a phase has completed
AfterPhase(phase) ==
    IF phase = "extract" THEN "build"
    ELSE IF phase = "build" THEN "export"
    ELSE IF phase = "export" /\ validate THEN "validate"
    ELSE "results"

FailedResult_WithFiles(text) ==
    [success |-> FALSE, error |-> Some(text),
     output_files |-> <<Some("seed_unified.owl"), Some("seed_unified.json"),
                        Some("term_mappings.json"), None>>]

\* lines 350-356: the except branch
FailedResult(text) ==
    [success |-> FALSE, error |-> Some(text), output_files |-> <<>>]

\* lines 325-342
SuccessResult ==
    [success |-> TRUE, error |-> None,
     output_files |-> <<Some("seed_unified.owl"), Some("seed_unified.json"),
                        Some("term_mappings.json"),
                        IF validate THEN Some("validation_report.json") ELSE None>>]

\* a phase of build_full_pipeline: it completes, or a collaborator raises
\* after the phase has written the first n of its files, and the except
\* branch returns
RunPhase(phase) ==
    /\ rpc = phase
    /\ phases' = Append(phases, phase)
    /\ \/ /\ written' = written \cup Range(PhaseFiles[phase])
          /\ rpc' = AfterPhase(phase)
          /\ result' = result
       \/ \E n \in 0..Len(PhaseFiles[phase]) :
          /\ written' = written \cup Range(SubSeq(PhaseFiles[phase], 1, n))
          /\ rpc' = "returned"
          /\ result' = Some(FailedResult(phase))
    /\ UNCHANGED <<present, validate, integrated, error>>
    /\ UNCHANGED <<mvars, bvars, ovars, nvars, xvars, zvars>>

\* build_full_pipeline is called on the constructed builder
build_full_pipeline ==
    /\ rpc = "constructed"
    /\ rpc' = "extract"
    /\ UNCHANGED <<present, validate, phases, integrated, written, error, result>>
    /\ UNCHANGED <<mvars, bvars, ovars, nvars, xvars, zvars>>

extract_data == RunPhase("extract")
build_ontology == RunPhase("build")
export_formats == RunPhase("export")
validate_ontology == RunPhase("validate")

\* lines 325-348: the results of a pipeline of which every phase completed
return_results ==
    /\ rpc = "results"
    /\ rpc' = "returned"
    /\ result' = Some(SuccessResult)
    /\ UNCHANGED <<present, validate, phases, integrated, written, error>>
    /\ UNCHANGED <<mvars, bvars, ovars, nvars, xvars, zvars>>

\* a mapper about to process a template, a CompleteSEEDOntologyBuilder or a
\* SEEDUnifiedBuilder about to be run, on some of their source files
RunInit ==
    \/ RerunInit
    \/ /\ MapperAbsent
       /\ BuilderAbsent
       /\ OwlBuilderAbsent
       /\ NormalizersIdle
       /\ XrefsIdle
       /\ AfterRunAbsent
       /\ \/ /\ rpc = "CompleteSEEDOntologyBuilder"
             /\ present \in SUBSET OntologySources
             /\ validate = FALSE
          \/ /\ rpc = "SEEDUnifiedBuilder"
             /\ present \in SUBSET UnifiedSources
             /\ validate \in BOOLEAN
       /\ phases = <<>>
       /\ integrated = {}
       /\ written = {}
       /\ error = None
       /\ result = None

RunNext ==
    \/ ProcessTemplateBegin
    \/ MapRoleStep
    \/ MapRoleRaises
    \/ MapComplexStep
    \/ SaveEnhancedTemplate
    \/ build_complete_ontology
    \/ SEEDUnifiedBuilder_init
    \/ build_full_pipeline
    \/ extract_data
    \/ build_ontology
    \/ export_formats
    \/ validate_ontology
    \/ return_results

RunSpec == RunInit /\ [][RunNext]_vars

----------------------------------------------------------------------------
(* The clean ontology: CleanOntologyExtractor, then CleanSEEDOntologyBuilder *)

SeedRolePrefix == <<"s", "e", "e", "d", ".", "r", "o", "l", "e", ":">>
SeedReactionPrefix ==
    <<"s", "e", "e", "d", ".", "r", "e", "a", "c", "t", "i", "o", "n", ":">>
SeedComplexPrefix ==
    <<"s", "e", "e", "d", ".", "c", "o", "m", "p", "l", "e", "x", ":">>
NullText == <<"n", "u", "l", "l">>

\* _is_entity_mapped: bool(seed_id and seed_id.strip() and not seed_id.startswith('null'))
is_entity_mapped(entity_data) ==
    /\ IsSome(entity_data.seed_id)
    /\ Val(entity_data.seed_id) # <<>>
    /\ Strip(Val(entity_data.seed_id)) # <<>>
    /\ ~StartsWith(Val(entity_data.seed_id), NullText)

\* {id: entity for id, entity in d.items() if self._is_entity_mapped(entity)}
MappedOf(d) == [k \in {j \in DOMAIN d : is_entity_mapped(d[j])} |-> d[k]]

ExtractMappedEntities(data) ==
    [roles     |-> MappedOf(data.roles),
     reactions |-> MappedOf(data.reactions),
     complexes |-> MappedOf(data.complexes)]

\* mutant: the lists are kept whole
KeepMapped_KeepAll(ids, mapped) == ids

\* [i for i in ids if i in mapped]
KeepMapped(ids, mapped) == SelectSeq(ids, LAMBDA i : i \in mapped)

\* the order in which the dicts of the template data are iterated
ComplexOrder  == <<"cpx1">>
ReactionOrder == <<"rxn1">>

KeysInOrder(d, order) == SelectSeq(order, LAMBDA k : k \in DOMAIN d)

RECURSIVE ComplexRoleRelationships(_, _, _)
ComplexRoleRelationships(keys, data, mapped) ==
    IF keys = <<>> THEN <<>>
    ELSE LET complex_id       == Head(keys)
             original_complex == data.complexes[complex_id]
             kept == KeepMapped(mapped.complexes[complex_id].roles, DOMAIN mapped.roles)
         IN  [i \in 1..Len(kept) |->
                <<complex_id, kept[i],
                  [triggering |-> kept[i] \in Range(original_complex.triggering_roles),
                   optional   |-> kept[i] \in Range(original_complex.optional_roles)]>>]
             \o ComplexRoleRelationships(Tail(keys), data, mapped)

RECURSIVE ReactionComplexRelationships(_, _)
ReactionComplexRelationships(keys, mapped) ==
    IF keys = <<>> THEN <<>>
    ELSE LET reaction_id == Head(keys)
             kept == KeepMapped(mapped.reactions[reaction_id].complexes,
                                DOMAIN mapped.complexes)
         IN  [i \in 1..Len(kept) |-> <<reaction_id, kept[i]>>]
             \o ReactionComplexRelationships(Tail(keys), mapped)

CleanedComplex(complex_data, mapped_roles) ==
    [complex_data EXCEPT
        !.roles            = KeepMapped(@, mapped_roles),
        !.triggering_roles = KeepMapped(@, mapped_roles),
        !.optional_roles   = KeepMapped(@, mapped_roles)]

CleanedReaction(reaction_data, mapped_complexes) ==
    [reaction_data EXCEPT !.complexes = KeepMapped(@, mapped_complexes)]

ExtractValidRelationships(data, mapped) ==
    [roles     |-> mapped.roles,
     reactions |-> [k \in DOMAIN mapped.reactions |->
                       CleanedReaction(mapped.reactions[k], DOMAIN mapped.complexes)],
     complexes |-> [k \in DOMAIN mapped.complexes |->
                       CleanedComplex(mapped.complexes[k], DOMAIN mapped.roles)],
     complex_role_relationships |->
         ComplexRoleRelationships(KeysInOrder(mapped.complexes, ComplexOrder), data, mapped),
     reaction_complex_relationships |->
         ReactionComplexRelationships(KeysInOrder(mapped.reactions, ReactionOrder), mapped)]

\* seed_id = entity.get('seed_id', ''); valid unless
\* "not seed_id or not seed_id.startswith(prefix)"
ValidSeedId(entity_data, prefix) ==
    /\ IsSome(entity_data.seed_id)
    /\ Val(entity_data.seed_id) # <<>>
    /\ StartsWith(Val(entity_data.seed_id), prefix)

validate_entity_seed_ids(data) ==
    /\ \A k \in DOMAIN data.roles : ValidSeedId(data.roles[k], SeedRolePrefix)
    /\ \A k \in DOMAIN data.reactions : ValidSeedId(data.reactions[k], SeedReactionPrefix)
    /\ \A k \in DOMAIN data.complexes : ValidSeedId(data.complexes[k], SeedComplexPrefix)

validate_relationships(data) ==
    /\ \A i \in DOMAIN data.complex_role_relationships :
          LET rel == data.complex_role_relationships[i] IN
          /\ Len(rel) >= 2
          /\ rel[1] \in DOMAIN data.complexes
          /\ rel[2] \in DOMAIN data.roles
    /\ \A i \in DOMAIN data.reaction_complex_relationships :
          LET rel == data.reaction_complex_relationships[i] IN
          /\ Len(rel) >= 2
          /\ rel[1] \in DOMAIN data.reactions
          /\ rel[2] \in DOMAIN data.complexes

\* the template data the extractor is given
CleanRoleIds == {"ftr1", "ftr2"}
CleanRoleSeedIds ==
    {None, Some(<<" ">>), Some(NullText), Some(SeedRolePrefix \o <<"1">>), Some(<<"1">>)}
CleanComplexSeedIds ==
    {None, Some(NullText), Some(SeedComplexPrefix \o <<"1">>), Some(SeedRolePrefix \o <<"1">>)}
CleanReactionSeedIds ==
    {None, Some(SeedReactionPrefix \o <<"1">>), Some(<<" ">> \o SeedReactionPrefix \o <<"1">>)}
RoleLists == {<<>>, <<"ftr1", "ftr2">>, <<"ftr2", "ftr3">>}
ComplexLists == {<<>>, <<"cpx1">>, <<"cpx1", "cpx2">>}

TemplateDatas ==
    [roles     : [CleanRoleIds -> [seed_id : CleanRoleSeedIds]],
     reactions : [Range(ReactionOrder) ->
                     [seed_id : CleanReactionSeedIds, complexes : ComplexLists]],
     complexes : [Range(ComplexOrder) ->
                     [seed_id : CleanComplexSeedIds, roles : RoleLists,
                      triggering_roles : {<<>>, <<"ftr1", "ftr2">>},
                      optional_roles : {<<>>, <<"ftr2", "ftr3">>}]]]

CleanInit ==
    /\ MapperAbsent
    /\ BuilderAbsent
    /\ OwlBuilderAbsent
    /\ NormalizersIdle
    /\ XrefsIdle
    /\ NoRun
    /\ IndexIdle
    /\ NoReport
    /\ NoWorkflow
    /\ template_data \in TemplateDatas
    /\ mapped_entities = <<>>
    /\ clean_data = <<>>
    /\ clean_file = <<>>
    /\ build_outcome = ""
    /\ cpos = "loaded"

extract_mapped_entities ==
    /\ cpos = "loaded"
    /\ mapped_entities' = ExtractMappedEntities(template_data)
    /\ cpos' = "mapped"
    /\ UNCHANGED <<template_data, clean_data, clean_file, build_outcome>>
    /\ UNCHANGED <<mvars, bvars, ovars, nvars, xvars, rvars, ivars, pvars, svars>>

extract_valid_relationships ==
    /\ cpos = "mapped"
    /\ clean_data' = ExtractValidRelationships(template_data, mapped_entities)
    /\ cpos' = "clean"
    /\ UNCHANGED <<template_data, mapped_entities, clean_file, build_outcome>>
    /\ UNCHANGED <<mvars, bvars, ovars, nvars, xvars, rvars, ivars, pvars, svars>>

save_clean_ontology ==
    /\ cpos = "clean"
    /\ clean_file' = clean_data
    /\ cpos' = "saved"
    /\ UNCHANGED <<template_data, mapped_entities, clean_data, build_outcome>>
    /\ UNCHANGED <<mvars, bvars, ovars, nvars, xvars, rvars, ivars, pvars, svars>>

\* CleanSEEDOntologyBuilder.build up to the end of its pre-build validation
CleanSEEDOntologyBuilder_build ==
    /\ cpos = "saved"
    /\ build_outcome' =
          IF ~validate_entity_seed_ids(clean_file)
          THEN "Entity SEED ID validation failed"
          ELSE IF ~validate_relationships(clean_file)
               THEN "Relationship validation failed"
               ELSE "validated"
    /\ cpos' = "built"
    /\ UNCHANGED <<template_data, mapped_entities, clean_data, clean_file>>
    /\ UNCHANGED <<mvars, bvars, ovars, nvars, xvars, rvars, ivars, pvars, svars>>

CleanNext ==
    \/ extract_mapped_entities
    \/ extract_valid_relationships
    \/ save_clean_ontology
    \/ CleanSEEDOntologyBuilder_build

CleanSpec == CleanInit /\ [][CleanNext]_vars

----------------------------------------------------------------------------
(* The name index of SEEDRolesExtractor *)

MaxIndexNodes == 2

IsDigit(c) == c \in {"1", "2"}

RECURSIVE LeadingDigits(_)
LeadingDigits(s) ==
    IF s # <<>> /\ IsDigit(Head(s)) THEN <<Head(s)>> \o LeadingDigits(Tail(s)) ELSE <<>>

\* _extract_role_id_from_url: re.search(r'Role=(\d+)', url), group 1 or None;
\* a url is a sequence of pieces, 'Role=' being one piece
RECURSIVE extract_role_id_from_url(_)
extract_role_id_from_url(url) ==
    IF url = <<>> THEN None
    ELSE IF Head(url) = "Role=" /\ LeadingDigits(Tail(url)) # <<>>
         THEN Some(LeadingDigits(Tail(url)))
         ELSE extract_role_id_from_url(Tail(url))

\* roles[role_id] = {...}: a dict keeps the place of a key that is set again
RECURSIVE SetRole(_, _)
SetRole(roles, role) ==
    IF roles = <<>> THEN <<role>>
    ELSE IF Head(roles).id = role.id THEN <<role>> \o Tail(roles)
         ELSE <<Head(roles)>> \o SetRole(Tail(roles), role)

RECURSIVE ExtractRolesFrom(_, _)
ExtractRolesFrom(nodes, roles) ==
    IF nodes = <<>> THEN roles
    ELSE LET node    == Head(nodes)
             role_id == extract_role_id_from_url(node.id)
         IN  IF node.type = "CLASS" /\ IsSome(role_id)
             THEN ExtractRolesFrom(Tail(nodes),
                      SetRole(roles,
                          [id |-> Val(role_id),
                           name |-> node.lbl,
                           normalized_name |-> extractor_normalize_role_name(node.lbl).key]))
             ELSE ExtractRolesFrom(Tail(nodes), roles)

extract_roles(nodes) == ExtractRolesFrom(nodes, <<>>)

\* mutant: the test "if normalized_name" is left out
IndexRole_KeepEmpty(name_idx, role) == Extend(name_idx, role.normalized_name, <<role.id>>)

\* if normalized_name: name_index.setdefault(normalized_name, []).append(role_id)
IndexRole(name_idx, role) ==
    IF role.normalized_name # <<>>
    THEN Extend(name_idx, role.normalized_name, <<role.id>>)
    ELSE name_idx

RECURSIVE BuildNameIndexFrom(_, _)
BuildNameIndexFrom(roles, name_idx) ==
    IF roles = <<>> THEN name_idx
    ELSE BuildNameIndexFrom(Tail(roles), IndexRole(name_idx, Head(roles)))

BuildNameToIdIndex(nodes) == BuildNameIndexFrom(extract_roles(nodes), EmptyDict)

\* the nodes of seed.json and the template role names
IndexUrls ==
    {<<"x">>, <<"x", "Role=", "1">>, <<"x", "Role=", "2">>, <<"Role=", "1", "x">>,
     <<"Role=", "x">>}
IndexLabels ==
    {NoneArg, StrArg(<<>>), StrArg(<<" ">>), StrArg(<<"A", "b">>), StrArg(<<"a", "b", " ">>),
     StrArg(<<"e", "c", " ", "a", "b">>)}
IndexNodes == [type : {"CLASS", "PROPERTY"}, id : IndexUrls, lbl : IndexLabels]

IndexInit ==
    /\ MapperAbsent
    /\ BuilderAbsent
    /\ OwlBuilderAbsent
    /\ NormalizersIdle
    /\ XrefsIdle
    /\ NoRun
    /\ CleanIdle
    /\ NoReport
    /\ NoWorkflow
    /\ index_nodes \in SeqsUpTo(IndexNodes, MaxIndexNodes)
    /\ seed_roles = <<>>
    /\ name_index = <<>>
    /\ template_role_name = <<>>
    /\ matched = FALSE
    /\ ipos = "loaded"

build_name_to_id_index ==
    /\ ipos = "loaded"
    /\ seed_roles' = extract_roles(index_nodes)
    /\ name_index' = BuildNameToIdIndex(index_nodes)
    /\ ipos' = "indexed"
    /\ UNCHANGED <<index_nodes, template_role_name, matched>>
    /\ UNCHANGED <<mvars, bvars, ovars, nvars, xvars, rvars, cvars, pvars, svars>>

\* test_data_integration: normalized = _normalize_role_name(name);
\* normalized in seed_role_names
match_role_name ==
    /\ ipos = "indexed"
    /\ \E name \in IndexLabels :
          /\ template_role_name' = Some(name)
          /\ matched' = (extractor_normalize_role_name(name).key \in DOMAIN name_index)
    /\ ipos' = "matched"
    /\ UNCHANGED <<index_nodes, seed_roles, name_index>>
    /\ UNCHANGED <<mvars, bvars, ovars, nvars, xvars, rvars, cvars, pvars, svars>>

IndexNext == build_name_to_id_index \/ match_role_name

IndexSpec == IndexInit /\ [][IndexNext]_vars

----------------------------------------------------------------------------
(* The coverage report of NormalizationEnhancedMapper *)

\* the sources of the roles of a template
RoleSources == {"ModelSEED", "KEGG"}

\* templates whose roles come from any of the sources
SourcedTemplates ==
    {[t EXCEPT !.roles = [k \in DOMAIN t.roles |-> [t.roles[k] EXCEPT !.source = src[k]]]] :
        t \in TemplatesNamed({NameAb, NameAdashb}), src \in [DOMAIN RoleIdSeq -> RoleSources]}

\* mapped / total_roles * 100 if total_roles > 0 else 0, rounded to two
\* places: in hundredths of a per cent
CoveragePct(mapped, total_roles) ==
    IF total_roles > 0 THEN (mapped * 10000) \div total_roles ELSE 0

\* lines 522-539: the coverage improvement analysis
CoverageReport(st) ==
    [total_roles |-> st.modelseed,
     exact_matching_only |->
         [mapped_roles |-> st.rast_mapped,
          coverage_pct |-> CoveragePct(st.rast_mapped, st.modelseed)],
     with_normalization |->
         [mapped_roles |-> st.final_mapped,
          coverage_pct |-> CoveragePct(st.final_mapped, st.modelseed),
          improvement  |-> st.normalization_mapped]]

CoverageInit == MapperInitFrom({r \in Registries : Len(r) <= MaxRerunNodes})

ProcessSourcedTemplate == pc = "idle" /\ StartRunFrom(SourcedTemplates)

\* the end of process_template: _generate_reports
generate_reports ==
    /\ pc = "done"
    /\ coverage_report' = Some(CoverageReport(stats))
    /\ pc' = "reported"
    /\ UNCHANGED <<seed_nodes, seed_role_by_normalized, normalization_collisions,
                   rast_answers, template, roles_in_complexes, stats, unmapped_roles,
                   normalization_matches, potential_collisions, role_to_seed, idx, runs>>
    /\ UNCHANGED <<bvars, ovars, nvars, xvars, rvars, cvars, ivars, svars>>

CoverageNext ==
    \/ ProcessSourcedTemplate
    \/ MapRoleStep
    \/ MapComplexStep
    \/ generate_reports

CoverageSpec == CoverageInit /\ [][CoverageNext]_vars

----------------------------------------------------------------------------
(* The workflow around output/seed_unified.json *)

\* generate_json_summary: the keys of the summary and what they hold; the
\* sizes are those of the builder's dicts
JsonSummary(n) ==
    [metadata |->
        [name |-> "SEED Unified Ontology - Complete", version |-> "3.0-complete",
         description |-> "Complete SEED ontology", generated |-> "isoformat"],
     statistics |->
        [compounds |-> n.compounds, reactions |-> n.reactions, roles |-> n.roles,
         subsystems |-> n.subsystems, complexes |-> n.complexes,
         spontaneous_reactions |-> 0, universal_reactions |-> 0,
         total_cross_references |-> 0, total_owl_restrictions |-> 0,
         modelseed_relationships |->
            [role_enables_reaction |-> n.role_enables_reaction,
             complex_has_role |-> n.complex_has_role,
             complex_enables_reaction |-> n.complex_enables_reaction,
             reaction_has_complex |-> n.reaction_has_complex]],
     missing_elements_integrated |->
        [source_ontology_cross_references |-> 0, source_ontology_owl_restrictions |-> 0,
         participation_relationships |-> 0],
     uri_patterns |-> [compounds |-> "cpd", reactions |-> "rxn", roles |-> "Role",
                       subsystems |-> "subsystem", complexes |-> "cpx"],
     standard_properties |-> [enables |-> "RO:0002327"]]

\* obj[k1][k2]... can be read
RECURSIVE HasPath(_, _)
HasPath(obj, path) ==
    \/ path = <<>>
    \/ Head(path) \in DOMAIN obj /\ HasPath(obj[Head(path)], Tail(path))

\* the first read that raises KeyError, if any
RECURSIVE FirstKeyError(_, _)
FirstKeyError(obj, reads) ==
    IF reads = <<>> THEN None
    ELSE IF HasPath(obj, Head(reads)) THEN FirstKeyError(obj, Tail(reads))
         ELSE Some(Head(reads))

\* validate_ontology.py lines 49-63: the subscripts in the order they are made
ValidateReads ==
    <<<<"statistics">>, <<"statistics", "compounds">>, <<"statistics", "reactions">>,
      <<"statistics", "roles">>, <<"statistics", "subsystems">>,
      <<"statistics", "complexes">>, <<"statistics", "relationships">>,
      <<"statistics", "relationships", "role_enables_reaction">>,
      <<"statistics", "relationships", "complex_has_role">>,
      <<"statistics", "relationships", "complex_enables_reaction">>,
      <<"statistics", "relationships", "reaction_has_complex">>>>

\* generate_obo.py lines 32-46
OboReads ==
    <<<<"metadata">>, <<"statistics">>, <<"metadata", "name">>,
      <<"metadata", "description">>, <<"metadata", "version">>,
      <<"metadata", "generated">>, <<"statistics", "compounds">>,
      <<"statistics", "reactions">>, <<"statistics", "roles">>,
      <<"statistics", "subsystems">>, <<"statistics", "complexes">>,
      <<"statistics", "relationships">>>>

EntityCounts ==
    [compounds : 0..1, reactions : 0..1, roles : 0..1, subsystems : 0..1,
     complexes : 0..1, role_enables_reaction : 0..1, complex_has_role : 0..1,
     complex_enables_reaction : 0..1, reaction_has_complex : 0..1]

WorkflowInit ==
    /\ MapperAbsent
    /\ BuilderAbsent
    /\ OwlBuilderAbsent
    /\ NormalizersIdle
    /\ XrefsIdle
    /\ NoRun
    /\ CleanIdle
    /\ IndexIdle
    /\ NoReport
    /\ entity_counts \in EntityCounts
    /\ summary_file = None
    /\ step_result = EmptyDict
    /\ spos = "building"

\* the build step: build_complete_ontology writes seed_unified.json
write_json_summary ==
    /\ spos = "building"
    /\ summary_file' = Some(JsonSummary(entity_counts))
    /\ spos' = "built"
    /\ UNCHANGED <<entity_counts, step_result>>
    /\ UNCHANGED <<mvars, bvars, ovars, nvars, xvars, rvars, cvars, ivars, pvars>>

\* a later step reads the summary
RunStep(step, reads) ==
    /\ spos = "built"
    /\ step \notin DOMAIN step_result
    /\ step_result' = Put(step_result, step, FirstKeyError(Val(summary_file), reads))
    /\ UNCHANGED <<entity_counts, summary_file, spos>>
    /\ UNCHANGED <<mvars, bvars, ovars, nvars, xvars, rvars, cvars, ivars, pvars>>

validate_ontology_script == RunStep("validate_ontology.py", ValidateReads)

generate_obo == RunStep("generate_obo.py", OboReads)

WorkflowNext == write_json_summary \/ validate_ontology_script \/ generate_obo

WorkflowSpec == WorkflowInit /\ [][WorkflowNext]_vars

----------------------------------------------------------------------------
(* Properties of the resolver (NormalizationEnhancedMapper) *)

\* role k of the current template has been through map_role
Processed(k) ==
    /\ k \in DOMAIN template.roles
    /\ pc \in {"complexes", "done"} \/ (pc = "roles" /\ k < idx)

\* the registry entries (places in seed.json) whose label normalizes to key
RegistryEntries(key) ==
    {k \in DOMAIN seed_nodes :
        /\ IsSome(RoleMatch(seed_nodes[k].id))
        /\ seed_nodes[k].lbl # <<>>
        /\ normalize_role(seed_nodes[k].lbl) = key}

EntrySeedId(k) == SeedId(Val(RoleMatch(seed_nodes[k].id)))

\* the distinct canonical identifiers whose label normalizes to key
CanonicalIds(key) == {EntrySeedId(k) : k \in RegistryEntries(key)}

Occurrences(seq, x) == Cardinality({i \in DOMAIN seq : seq[i] = x})

\* map_annotation gave no identifier for the role's name (or was not asked)
Unmatched(role, answers) ==
    role.name \in DOMAIN answers => answers[role.name] = None

CollisionRecordsFor(role) ==
    {i \in DOMAIN potential_collisions :
        potential_collisions[i].template_role = role.name}

\* C1: when two or more registry entries share a normalized key, a role used
\* in a complex, not matched by the external mapper, whose normalized name is
\* that key stays without seed_id, is appended to unmapped_roles, and map_role
\* appends exactly one collision record naming each colliding entry once.
C1_CollisionSafety ==
    [][pc = "roles" =>
        LET role == template.roles[idx]
            key  == normalize_role(role.name)
        IN  (/\ role.id \in roles_in_complexes
             /\ Unmatched(role, rast_answers')
             /\ Cardinality(RegistryEntries(key)) >= 2)
            => /\ template'.roles[idx].seed_id = None
               /\ Len(unmapped_roles') = Len(unmapped_roles) + 1
               /\ unmapped_roles'[Len(unmapped_roles')].id = role.id
               /\ Len(potential_collisions') = Len(potential_collisions) + 1
               /\ LET rec == potential_collisions'[Len(potential_collisions')]
                  IN  /\ rec.template_role = role.name
                      /\ \A lbl \in RegistryLabels :
                            Occurrences(rec.colliding_seed_roles, lbl) =
                            Cardinality({k \in RegistryEntries(key) :
                                            seed_nodes[k].lbl = lbl})]_vars

\* C4: when map_annotation returns an identifier for the name of a role used
\* in a complex, map_role assigns exactly that identifier and records neither
\* a normalization match nor a collision.
C4_RastShortCircuit ==
    [][pc = "roles" =>
        LET role == template.roles[idx]
        IN  (/\ role.id \in roles_in_complexes
             /\ role.name # <<>>
             /\ IsSome(rast_answers'[role.name]))
            => /\ template'.roles[idx].seed_id = rast_answers'[role.name]
               /\ template'.roles[idx].mapping_method = Some("exact_rast")
               /\ role_to_seed'[role.id] = Val(rast_answers'[role.name])
               /\ normalization_matches' = normalization_matches
               /\ potential_collisions' = potential_collisions
               /\ stats'.normalization_mapped = stats.normalization_mapped]_vars

\* C4 witness: a role resolved by the external mapper although its normalized
\* form is a collision key of the registry
C4_Witness ==
    \E k \in DOMAIN template.roles :
        /\ Processed(k)
        /\ template.roles[k].mapping_method = Some("exact_rast")
        /\ Val(template.roles[k].hasNormalizedForm) \in DOMAIN normalization_collisions

\* C5: a role used in a complex whose name is verbatim the label of registry
\* entry A, while another entry B with a different identifier has the same
\* normalized form, is assigned A and is not skipped as a collision.
C5_ExactMatchWins ==
    \A k \in DOMAIN template.roles :
        LET role  == template.roles[k]
            exact == {a \in RegistryEntries(normalize_role(role.name)) :
                        /\ seed_nodes[a].lbl = role.name
                        /\ \E b \in RegistryEntries(normalize_role(role.name)) :
                              EntrySeedId(b) # EntrySeedId(a)}
        IN  (Processed(k) /\ role.id \in roles_in_complexes /\ exact # {})
            => /\ \E a \in exact : role.seed_id = Some(EntrySeedId(a))
               /\ CollisionRecordsFor(role) = {}

\* C6: an entry of role_to_seed, once set, is never changed by a later step.
C6_NeverOverwritten ==
    [][\A rid \in DOMAIN role_to_seed :
          rid \in DOMAIN role_to_seed' /\ role_to_seed'[rid] = role_to_seed[rid]]_vars

\* C7: for a role used in a complex that the external mapper did not resolve,
\* the normalization match is made when exactly one distinct canonical
\* identifier has the role's normalized form, and it is refused if and only if
\* more than one distinct identifier has it.
C7_RefusedOnlyForRealCollision ==
    \A k \in DOMAIN template.roles :
        LET role == template.roles[k]
            ids  == CanonicalIds(normalize_role(role.name))
        IN  (/\ Processed(k)
             /\ role.id \in roles_in_complexes
             /\ role.name # <<>>
             /\ Unmatched(role, rast_answers))
            => /\ Cardinality(ids) = 1 =>
                    /\ role.seed_id \in {Some(i) : i \in ids}
                    /\ role.mapping_method = Some("normalization")
               /\ CollisionRecordsFor(role) # {} <=> Cardinality(ids) > 1

\* C8: after the roles loop every role used in a complex is either resolved
\* (counted in final_mapped) or listed in unmapped_roles, so
\* in_complexes = final_mapped + len(unmapped_roles).
C8_ResolvedOrUnmapped ==
    pc \in {"complexes", "done"} =>
        /\ stats.in_complexes = stats.final_mapped + Len(unmapped_roles)
        /\ \A k \in DOMAIN template.roles :
              template.roles[k].id \in roles_in_complexes =>
                  (IsSome(template.roles[k].seed_id)
                     <=> ~\E i \in DOMAIN unmapped_roles :
                             unmapped_roles[i].id = template.roles[k].id)

\* C9: map_role of a role whose id is in no complex returns the role
\* unchanged and adds nothing to unmapped_roles, normalization_matches,
\* potential_collisions or role_to_seed.
C9_UnreferencedUntouched ==
    [][(pc = "roles" /\ template.roles[idx].id \notin roles_in_complexes)
        => /\ template'.roles[idx] = template.roles[idx]
           /\ UNCHANGED <<unmapped_roles, normalization_matches,
                          potential_collisions, role_to_seed>>]_vars

\* C9 witness: map_role has returned for a role that no complex references,
\* although its normalized name is a key of the registry index
C9_Witness ==
    \E k \in DOMAIN template.roles :
        /\ Processed(k)
        /\ template.roles[k].id \notin roles_in_complexes
        /\ normalize_role(template.roles[k].name) \in DOMAIN seed_role_by_normalized
        /\ ~HasCollision(normalize_role(template.roles[k].name))

----------------------------------------------------------------------------
(* Properties of the relationship assembler (CorrectedOntologyBuilder) *)


\* every reaction-complex reference of the template: <<reaction, reference>>
AllRefs ==
    {rc \in (DOMAIN enhanced.reactions) \X (1..Len(ComplexIdSeq)) :
        rc[2] \in DOMAIN enhanced.reactions[rc[1]].templatecomplex_refs}

RefOf(rc) == enhanced.reactions[rc[1]].templatecomplex_refs[rc[2]]

\* the complexes of the template a reference names
ComplexesNamed(ref) == {c \in Range(enhanced.complexes) : c.id = LastSegment(ref)}

\* the references that name a complex of the template
ResolvedRefs == {rc \in AllRefs : ComplexesNamed(RefOf(rc)) # {}}

ComplexOf(rc) == CHOOSE c \in ComplexesNamed(RefOf(rc)) : TRUE

RolesNamed(ref) == {r \in Range(enhanced.roles) : ref # <<>> /\ r.id = LastSegment(ref)}

\* every member of a referenced complex that is a role of the template:
\* <<reaction, reference, member>>
Members ==
    {t \in (DOMAIN enhanced.reactions) \X (1..Len(ComplexIdSeq)) \X (1..Len(RoleIdSeq)) :
        /\ <<t[1], t[2]>> \in ResolvedRefs
        /\ t[3] \in DOMAIN ComplexOf(<<t[1], t[2]>>).complexroles
        /\ RolesNamed(ComplexOf(<<t[1], t[2]>>).complexroles[t[3]].templaterole_ref) # {}}

MemberOf(t) == ComplexOf(<<t[1], t[2]>>).complexroles[t[3]]
RoleOf(t)   == CHOOSE r \in RolesNamed(MemberOf(t).templaterole_ref) : TRUE

ReactionUriOf(r) == ReactionUri(RxnBaseId(enhanced.reactions[r].id))
ComplexUriOf(rc) == ComplexUri(LastSegment(RefOf(rc)))

Resolved(role) == role.seed_id # None

\* the URI a role is linked under: its SEED role URI when it has a seed_id, its
\* template role URI otherwise
LinkedRoleUri(role) ==
    IF Resolved(role) THEN <<RoleUrlPrefix, role.seed_id[1][2]>>
    ELSE <<"https://modelseed.org/template/roles/", role.id>>

UnresolvedRoleUris ==
    {<<"https://modelseed.org/template/roles/", r.id>> :
        r \in {x \in Range(enhanced.roles) : ~Resolved(x)}}

C3_TriggeringRule ==
    bpc = "related" =>
        /\ \A l \in Range(enables_reaction_rels) :
              \E t \in Members : /\ MemberOf(t).triggering = 1
                                 /\ l.subject = LinkedRoleUri(RoleOf(t))
                                 /\ l.object = ReactionUriOf(t[1])
        /\ Len(enables_reaction_rels) =
              Cardinality({t \in Members : MemberOf(t).triggering = 1})
        /\ \A t \in Members :
              Link(ComplexUriOf(<<t[1], t[2]>>), HAS_ROLE, LinkedRoleUri(RoleOf(t)))
                  \in Range(has_role_rels)
        /\ Len(has_role_rels) = Cardinality(Members)

\* C3 witness: a triggering and a non-triggering member with different role
\* URIs in complexes of one reaction, the second without enables_reaction link
C3_Witness ==
    /\ bpc = "related"
    /\ \E t1, t2 \in Members :
          /\ t1[1] = t2[1]
          /\ MemberOf(t1).triggering = 1
          /\ MemberOf(t2).triggering = 0
          /\ Link(LinkedRoleUri(RoleOf(t1)), ENABLES_REACTION, ReactionUriOf(t1[1]))
                \in Range(enables_reaction_rels)
          /\ Link(LinkedRoleUri(RoleOf(t2)), ENABLES_REACTION, ReactionUriOf(t2[1]))
                \notin Range(enables_reaction_rels)
          /\ Link(ComplexUriOf(<<t2[1], t2[2]>>), HAS_ROLE, LinkedRoleUri(RoleOf(t2)))
                \in Range(has_role_rels)

\* C10 as stated: has_complex(R, C) is emitted for every complex reference of
\* every reaction, one per reference.
C10_HasComplexForEveryRef ==
    bpc = "related" =>
        /\ \A rc \in AllRefs :
              Link(ReactionUriOf(rc[1]), HAS_COMPLEX, ComplexUriOf(rc))
                  \in Range(has_complex_rels)
        /\ Len(has_complex_rels) = Cardinality(AllRefs)

\* C10, amended: has_complex(R, C) is emitted for every reference that names a
\* complex of the template, one per such reference, whatever the member roles
\* of C; a reference to a complex missing from the template yields no link.
C10_HasComplexForEveryResolvedRef ==
    bpc = "related" =>
        /\ \A rc \in ResolvedRefs :
              Link(ReactionUriOf(rc[1]), HAS_COMPLEX, ComplexUriOf(rc))
                  \in Range(has_complex_rels)
        /\ \A l \in Range(has_complex_rels) :
              \E rc \in ResolvedRefs : /\ l.subject = ReactionUriOf(rc[1])
                                       /\ l.object = ComplexUriOf(rc)
        /\ Len(has_complex_rels) = Cardinality(ResolvedRefs)

\* C10 witness: a has_complex link for a complex none of whose member roles
\* resolved, in a template that also holds a reference to a missing complex
C10_Witness ==
    /\ bpc = "related"
    /\ \E rc \in ResolvedRefs :
          /\ \A t \in Members : <<t[1], t[2]>> = rc => ~Resolved(RoleOf(t))
          /\ Link(ReactionUriOf(rc[1]), HAS_COMPLEX, ComplexUriOf(rc))
                \in Range(has_complex_rels)
    /\ AllRefs # ResolvedRefs

NoRepeats(seq) == \A i, j \in DOMAIN seq : seq[i] = seq[j] => i = j

\* C11: the links of the assembler have set semantics: no identical
\* (subject, predicate, object) triple is in enables_reaction_rels,
\* has_role_rels or has_complex_rels twice, so none is counted twice.
C11_SetSemantics ==
    bpc = "related" =>
        /\ NoRepeats(enables_reaction_rels)
        /\ NoRepeats(has_role_rels)
        /\ NoRepeats(has_complex_rels)

\* C12: in the built ontology a complex C is linked to a reaction R by
\* capable_of (complex_enables_reaction) if and only if R is linked to C by
\* realized_by (reaction_has_complex).
C12_InverseLinksAgree ==
    opc = "written" =>
        \A c \in OwlComplexIds, r \in OwlReactionIds :
            <<OwlComplexUri(c), OwlReactionUri(r)>> \in capable_of
                <=> <<OwlReactionUri(r), OwlComplexUri(c)>> \in realized_by

----------------------------------------------------------------------------
(* Properties of the normalizers *)

\* C13: every role-name normalizer is idempotent: called on its own result
\* it returns that result.
C13_Idempotent ==
    (norm_calls = 2 /\ norm_fn \in {"normalize_role", "normalize_role_name",
                                    "extractor_normalize_role_name"})
        => norm_key = norm_prev

\* " (EC 1.1.1.1)"
EcAnnotation == <<" ", "(", "E", "C", " ", "1", ".", "1", ".", "1", ".", "1", ")">>

Annotated(arg) == StrArg(arg.text \o EcAnnotation)

\* an "(EC" of x that no ")" of x closes
UnclosedEc(x) ==
    \E i \in 1..(Len(x) - 2) :
        /\ SubSeq(x, i, i + 2) = <<"(", "E", "C">>
        /\ \A k \in (i + 3)..Len(x) : x[k] # ")"

LowerAlnum == {"a", "b", "e", "c", "1"}
Separators == Chars \ {"A", "a", "b", "E", "C", "e", "c", "1"}

OnlyLowerAlnum(key) == \A i \in DOMAIN key : key[i] \in LowerAlnum

UpperChar(c) ==
    IF c = "a" THEN "A" ELSE IF c = "e" THEN "E" ELSE IF c = "c" THEN "C" ELSE c

\* the labels that differ from x by one more separator, or only in case
Respelled(x) ==
    {SubSeq(x, 1, i) \o <<c>> \o SubSeq(x, i + 1, Len(x)) :
        i \in 0..Len(x), c \in Separators}
    \cup {[i \in DOMAIN x |-> UpperChar(x[i])], [i \in DOMAIN x |-> LowerChar(x[i])]}

----------------------------------------------------------------------------
(* Properties of the resolver on names without letters or digits *)

\* C16: a role whose normalized key is the empty string is never resolved
\* through the normalization stage, whatever the registry holds.
C16_EmptyKeyUnmatchable ==
    \A k \in DOMAIN template.roles :
        (Processed(k) /\ normalize_role(template.roles[k].name) = <<>>)
            => template.roles[k].mapping_method # Some("normalization")

----------------------------------------------------------------------------
(* Properties of the normalizers on absent input *)

\* C17: normalize_role (template_enhancer.py and build_seed_ontology.py)
\* accepts any label, the empty string and None: it returns a key without
\* raising, and the empty or absent input yields the empty key.
C17_AcceptsEmptyAndNone ==
    (norm_calls = 1 /\ norm_fn \in {"normalize_role", "seed_ontology_normalize_role"})
        => /\ ~norm_key.raised
           /\ Falsy(label) => norm_key.key = <<>>

----------------------------------------------------------------------------
(* Properties of the cross-reference extractors *)

\* the text of an entry after its leading prefix
EntryValue(entry, prefix) == SubSeq(entry, Len(prefix) + 1, Len(entry))

Semicolons(value) == {i \in DOMAIN value : value[i] = ";"}

\* the position of the k-th semicolon; 0 before the first part and one past
\* the end after the last
Cut(value, k) ==
    IF k = 0 THEN 0
    ELSE IF k > Cardinality(Semicolons(value)) THEN Len(value) + 1
    ELSE CHOOSE i \in Semicolons(value) :
             Cardinality({j \in Semicolons(value) : j < i}) = k - 1

\* the k-th of the parts that the semicolons delimit
Part(value, k) == SubSeq(value, Cut(value, k - 1) + 1, Cut(value, k) - 1)

\* a part without the spaces around it
Trimmed(part) ==
    LET inked == {i \in DOMAIN part : part[i] # " "}
    IN  IF inked = {} THEN <<>>
        ELSE SubSeq(part, CHOOSE i \in inked : \A j \in inked : i <= j,
                          CHOOSE i \in inked : \A j \in inked : i >= j)

\* the parts of a value, trimmed, the empty ones discarded, in their order
TrimmedParts(value) ==
    SelectSeq([k \in 1..(Cardinality(Semicolons(value)) + 1) |-> Trimmed(Part(value, k))],
              LAMBDA part : part # <<>>)

\* the list the returned mapping holds for a database
Listed(key) == IF key \in DOMAIN xrefs THEN xrefs[key] ELSE <<>>

\* the parts of the values of the entries of list that start with prefix, in
\* encounter order
RECURSIVE PartsInOrder(_, _)
PartsInOrder(list, prefix) ==
    IF list = <<>> THEN <<>>
    ELSE (IF StartsWith(Head(list), <<prefix>>)
          THEN TrimmedParts(EntryValue(Head(list), <<prefix>>))
          ELSE <<>>) \o PartsInOrder(Tail(list), prefix)

\* the same, every further occurrence of the prefix being taken out of the
\* value before it is split
RECURSIVE PartsWithoutPrefixInOrder(_, _)
PartsWithoutPrefixInOrder(list, prefix) ==
    IF list = <<>> THEN <<>>
    ELSE (IF StartsWith(Head(list), <<prefix>>)
          THEN TrimmedParts(SelectSeq(Head(list), LAMBDA token : token # prefix))
          ELSE <<>>) \o PartsWithoutPrefixInOrder(Tail(list), prefix)

BearsSemicolon(entry) == \E i \in DOMAIN entry : entry[i] = ";"

\* the databases whose identifiers _parse_xrefs stores without their prefix
ValueDatabases ==
    [kegg |-> "kegg.compound:", metacyc |-> "metacyc.compound:",
     seed_reaction |-> "seed.reaction:"]

\* C18 as stated: the value of every semicolon-bearing entry that
\* _parse_xrefs recognizes is split on ';', each part trimmed, the empty
\* parts discarded and the others appended to the list of the database in
\* encounter order (the CHEBI: entries, stored with their prefix, aside).
C18_SemicolonEntriesSplit ==
    xop = "_parse_xrefs" =>
        \A key \in DOMAIN ValueDatabases :
            (\A i \in DOMAIN xrefs_list :
                 StartsWith(xrefs_list[i], <<ValueDatabases[key]>>)
                     => BearsSemicolon(xrefs_list[i]))
                => Listed(key) = PartsInOrder(xrefs_list, ValueDatabases[key])

\* C18, amended: for the entries that start with kegg.compound: or
\* metacyc.compound: _parse_xrefs takes every occurrence of the prefix out of
\* the entry, splits the rest on ';', trims each part, discards the empty
\* parts and appends the others to the list of kegg or metacyc in encounter
\* order.
C18_MultiValuedEntriesSplit ==
    xop = "_parse_xrefs" =>
        \A key \in {"kegg", "metacyc"} :
            Listed(key) = PartsWithoutPrefixInOrder(xrefs_list, ValueDatabases[key])

\* the example ["CHEBI:15422", "kegg.compound:C00002;C00008;"] has been parsed
\* to {chebi: ["CHEBI:15422"], kegg: ["C00002", "C00008"]}
C18_Witness ==
    /\ xop = "_parse_xrefs"
    /\ xrefs_list = ExampleXrefs
    /\ DOMAIN xrefs = {"chebi", "kegg"}
    /\ xrefs["chebi"] = << <<"CHEBI:", "15422">> >>
    /\ xrefs["kegg"] = << <<"C00002">>, <<"C00008">> >>

\* an empty or whitespace-only text
Blank(text) == \A i \in DOMAIN text : text[i] = " "

NoBlankIn(lists) ==
    \A key \in DOMAIN lists : \A i \in DOMAIN lists[key] : ~Blank(lists[key][i])

\* C19: no list of the mapping returned by _parse_xrefs and no kegg_ids,
\* chebi_ids, ec_numbers or metacyc_ids list attached by map_compound or
\* map_reaction contains an empty or whitespace-only string.
C19_NoBlankXref ==
    /\ NoBlankIn(xrefs)
    /\ NoBlankIn(compound.attached)
    /\ NoBlankIn(reaction.attached)

\* the prefixes of the contract
EightPrefixes ==
    {"CHEBI:", "KEGG.COMPOUND:", "kegg.compound:", "metacyc.compound:",
     "MetaCyc:", "EC:", "KEGG.REACTION:", "seed.reaction:"}

\* a value that is one identifier
PlainId(value) == Len(value) = 1 /\ value[1] \notin EightPrefixes \cup {";", " ", "chebi:"}

\* C20: every entry given to _parse_xrefs that starts with one of the eight
\* prefixes contributes its value to a list of the returned mapping (the
\* value being one identifier, stored without or, as CHEBI: is, with its
\* prefix, under whichever database key).
C20_EightPrefixesRecognized ==
    xop = "_parse_xrefs" =>
        \A i \in DOMAIN xrefs_list : \A prefix \in EightPrefixes :
            (/\ StartsWith(xrefs_list[i], <<prefix>>)
             /\ PlainId(EntryValue(xrefs_list[i], <<prefix>>)))
                => \E key \in DOMAIN xrefs :
                       \E j \in DOMAIN xrefs[key] :
                           xrefs[key][j] \in {xrefs_list[i],
                                              EntryValue(xrefs_list[i], <<prefix>>)}

----------------------------------------------------------------------------
(* Properties of the cross-reference extractor on entries it does not know *)

\* the prefixes _parse_xrefs files an entry under
ParsedPrefixes == {"CHEBI:", "kegg.compound:", "metacyc.compound:", "seed.reaction:"}

\* an entry with another prefix or with none (no colon)
Unrecognized(entry) == entry = <<>> \/ entry[1] \notin ParsedPrefixes

\* the list without its i-th entry
Without(list, i) == SubSeq(list, 1, i - 1) \o SubSeq(list, i + 1, Len(list))

\* C21: an entry with an unrecognized prefix or with no colon is never an
\* error: _parse_xrefs returns the mapping it returns for the list with that
\* entry removed.
C21_UnrecognizedIsSkipped ==
    xop = "_parse_xrefs" =>
        \A i \in DOMAIN xrefs_list :
            Unrecognized(xrefs_list[i]) => xrefs = parse_xrefs(Without(xrefs_list, i))

\* a list with an entry without colon, one with an unknown prefix or one with
\* a prefix of the other functions, next to an entry that is filed
C21_Witness ==
    /\ xop = "_parse_xrefs"
    /\ Len(xrefs_list) = 2
    /\ xrefs_list[1] \in {<<"C00002">>, <<"chebi:", "C00002">>, <<"EC:", "C00002">>}
    /\ xrefs_list[2] = <<"kegg.compound:", "C00002">>
    /\ xrefs = [kegg |-> << <<"C00002">> >>]

----------------------------------------------------------------------------
(* Properties of the runs *)

\* the role whose resolution the external mapper's exception interrupted is
\* in the list of unmapped roles
ReportedUnmapped ==
    \E k \in DOMAIN unmapped_roles : unmapped_roles[k].id = template.roles[idx].id

\* C22: a collaborator failure is fatal for the whole run: when the external
\* mapper raises, the exception reaches the caller, the role is not reported
\* as unmapped and nothing is written; a SEEDUnifiedBuilder is constructed
\* only on all its source files; and CompleteSEEDOntologyBuilder writes its
\* ontology only when none of its source files is absent.
C22_CollaboratorFailureFatal ==
    /\ pc = "raised" => (IsSome(error) /\ written = {} /\ ~ReportedUnmapped)
    /\ IsSome(error) => written = {}
    /\ rpc = "constructed" => UnifiedSources \subseteq present
    /\ (phases = <<>> /\ written \cap OntologyOutputs # {})
           => OntologySources \subseteq present

----------------------------------------------------------------------------
(* Properties of the resolver: independence of the order of resolution *)

\* role k of the template as it was given to process_template
GivenRole(k) ==
    [template.roles[k] EXCEPT !.seed_id = None, !.seed_url = None,
                              !.mapping_method = None, !.hasNormalizedForm = None]

\* what the external mapper answered for role k, None if it was not asked
AnswerFor(k) ==
    IF AsksRast(GivenRole(k)) THEN rast_answers[template.roles[k].name] ELSE None

\* role k is one that the normalization stage refuses because of a collision
Refused(k) ==
    /\ AsksRast(GivenRole(k))
    /\ NormalizationApplies(AnswerFor(k), normalize_role(template.roles[k].name))
    /\ HasCollision(normalize_role(template.roles[k].name))

----------------------------------------------------------------------------
(* Properties of the resolver over several templates *)

\* the seed ids the current run gave to the roles that complex c references
AssignedToMembers(c) ==
    {Val(template.roles[k].seed_id) :
        k \in {j \in DOMAIN template.roles :
                 /\ IsSome(template.roles[j].seed_id)
                 /\ \E r \in DOMAIN template.complexes[c].complexroles :
                       FtrMatch(template.complexes[c].complexroles[r].templaterole_ref)
                           = Some(template.roles[j].id)}}

\* C24: after any sequence of process_template runs on one mapper, every
\* identifier in a complex's role_seeds is the seed_id the current run
\* assigned to a role of the current template that the complex references.
C24_RoleSeedsFromCurrentRun ==
    pc = "done" =>
        \A c \in DOMAIN template.complexes :
            IsSome(template.complexes[c].role_seeds)
                => Range(Val(template.complexes[c].role_seeds)) \subseteq AssignedToMembers(c)

----------------------------------------------------------------------------
(* Properties of the clean ontology *)

CleanDone == cpos \in {"clean", "saved", "built"}

\* C25: every relationship CleanOntologyExtractor returns has both endpoints
\* among the roles, reactions and complexes it returns, the role lists of its
\* cleaned complexes and the complex lists of its cleaned reactions hold only
\* returned ids, and validate_relationships accepts the output.
C25_OnlyMappedRelationships ==
    /\ CleanDone =>
          /\ \A i \in DOMAIN clean_data.complex_role_relationships :
                /\ clean_data.complex_role_relationships[i][1] \in DOMAIN clean_data.complexes
                /\ clean_data.complex_role_relationships[i][2] \in DOMAIN clean_data.roles
          /\ \A i \in DOMAIN clean_data.reaction_complex_relationships :
                /\ clean_data.reaction_complex_relationships[i][1] \in DOMAIN clean_data.reactions
                /\ clean_data.reaction_complex_relationships[i][2] \in DOMAIN clean_data.complexes
          /\ \A c \in DOMAIN clean_data.complexes :
                Range(clean_data.complexes[c].roles)
                    \cup Range(clean_data.complexes[c].triggering_roles)
                    \cup Range(clean_data.complexes[c].optional_roles)
                        \subseteq DOMAIN clean_data.roles
          /\ \A r \in DOMAIN clean_data.reactions :
                Range(clean_data.reactions[r].complexes) \subseteq DOMAIN clean_data.complexes
          /\ validate_relationships(clean_data)
    /\ cpos = "built" => build_outcome # "Relationship validation failed"

\* a complex with a mapped and an unmapped role, and a reaction with a mapped
\* and an absent complex, went through the extractor and the builder
C25_Witness ==
    /\ cpos = "built"
    /\ build_outcome = "validated"
    /\ template_data.complexes["cpx1"].roles = <<"ftr1", "ftr2">>
    /\ template_data.reactions["rxn1"].complexes = <<"cpx1", "cpx2">>
    /\ Len(clean_data.complex_role_relationships) = 1
    /\ Len(clean_data.reaction_complex_relationships) = 1

\* C26: every role, reaction and complex kept by extract_mapped_entities has
\* a seed_id starting with 'seed.role:', 'seed.reaction:' or 'seed.complex:'
\* respectively, so the builder never rejects the output for its SEED ids.
C26_KeptEntitiesHaveSeedIds ==
    /\ cpos # "absent" /\ cpos # "loaded" => validate_entity_seed_ids(mapped_entities)
    /\ cpos = "built" => build_outcome # "Entity SEED ID validation failed"

----------------------------------------------------------------------------
(* Properties of the name index *)

\* the ids of the extracted SEED roles whose normalized_name is key
SeedRolesNamed(key) == {seed_roles[i].id : i \in {j \in DOMAIN seed_roles : seed_roles[j].normalized_name = key}}

IndexIsExact ==
    /\ <<>> \notin DOMAIN name_index
    /\ \A i \in DOMAIN seed_roles :
          seed_roles[i].normalized_name # <<>>
              => seed_roles[i].normalized_name \in DOMAIN name_index
    /\ \A key \in DOMAIN name_index :
          /\ Range(name_index[key]) = SeedRolesNamed(key)
          /\ Len(name_index[key]) = Cardinality(SeedRolesNamed(key))

LookedUp == extractor_normalize_role_name(Val(template_role_name)).key

\* C27 as stated: the index maps every non-empty normalized name to exactly
\* the ids of the SEED roles of that normalized name, each once and with no
\* empty key, and a template role name is matched exactly when its
\* normalized value equals the normalized_name of some extracted SEED role.
C27_MatchedWhenNamesEqual ==
    /\ ipos \in {"indexed", "matched"} => IndexIsExact
    /\ ipos = "matched" => (matched <=> SeedRolesNamed(LookedUp) # {})

\* C27: the index is exact, and a template role name is matched exactly when
\* its normalized value is not empty and equals the normalized_name of some
\* extracted SEED role.
C27_MatchedWhenNonEmptyNamesEqual ==
    /\ ipos \in {"indexed", "matched"} => IndexIsExact
    /\ ipos = "matched" => (matched <=> (LookedUp # <<>> /\ SeedRolesNamed(LookedUp) # {}))

\* two SEED roles share a normalized name and a template role name was
\* matched to it
C27_Witness ==
    /\ ipos = "matched"
    /\ matched
    /\ Len(name_index[LookedUp]) = 2

----------------------------------------------------------------------------
(* Properties of the unified pipeline *)

\* the phases a call of build_full_pipeline is asked to run
RequestedPhases == IF validate THEN PhaseOrder ELSE SubSeq(PhaseOrder, 1, 3)

PipelineReturned == rpc = "returned" /\ IsSome(result)

\* C28: build_full_pipeline enters its phases in the order extract, build,
\* export, validate (validate only when requested); when a phase raises no
\* later phase is entered, nothing is raised to the caller and the result has
\* success = False, the error text and an empty output_files list; a result
\* with success = True is returned only after every requested phase completed.
C28_PhasesInOrderFailureReturned ==
    /\ StartsWith(RequestedPhases, phases)
    /\ PipelineReturned =>
          /\ error = None
          /\ Val(result).success =>
                /\ phases = RequestedPhases
                /\ \A i \in DOMAIN phases : Range(PhaseFiles[phases[i]]) \subseteq written
          /\ ~Val(result).success =>
                /\ phases # <<>>
                /\ Val(result).error = Some(phases[Len(phases)])
                /\ Val(result).output_files = <<>>

\* the export phase raised after the ontology file was written: the
\* validation that was asked for never ran and a failure was returned
C28_Witness ==
    /\ PipelineReturned
    /\ validate
    /\ ~Val(result).success
    /\ phases = <<"extract", "build", "export">>
    /\ "seed_unified.owl" \in written

----------------------------------------------------------------------------
(* Properties of the coverage report *)

\* C29: whenever the coverage report is generated, rast_mapped <= final_mapped
\* <= the role count used as the coverage denominator, so that neither
\* reported coverage exceeds 100 per cent.
C29_CoverageAtMostAll ==
    IsSome(coverage_report) =>
        /\ stats.rast_mapped <= stats.final_mapped
        /\ stats.final_mapped <= Val(coverage_report).total_roles
        /\ Val(coverage_report).exact_matching_only.coverage_pct <= 10000
        /\ Val(coverage_report).with_normalization.coverage_pct <= 10000

----------------------------------------------------------------------------
(* Properties of the workflow *)

\* C30: the JSON summary written by generate_json_summary holds every field
\* validate_ontology.py and generate_obo.py read from it, so that after the
\* build step neither later step fails on a missing key.
C30_SummaryHasEveryFieldRead ==
    /\ spos = "built" =>
          \A path \in Range(ValidateReads) \cup Range(OboReads) :
              HasPath(Val(summary_file), path)
    /\ \A step \in DOMAIN step_result : step_result[step] = None

====
